---- MODULE Spec2Model ----
(***************************************************************************)
(* Tool-calling normalization layer of the agent providers:                *)
(*   - history reconciliation  (helpers/tooled.js formatMessagesForTools,  *)
(*     ollama.js #formatMessagesForOllamaTools)                            *)
(*   - native streaming driver (helpers/tooled.js tooledStream)            *)
(*   - native non-streaming driver (helpers/tooled.js tooledComplete)      *)
(*   - provider adapters (stream / complete, capability probe, error       *)
(*     classification)                                                     *)
(* Each component has its own specification over the shared variables.     *)
(***************************************************************************)
EXTENDS Integers, Sequences, FiniteSets, TLC

VARIABLES
  \* ---- history reconciliation ----
  messages,              \* the aibitat history handed to the formatter
  injectReasoningContent,\* options.injectReasoningContent
  formattedMessages,     \* the formatter's return value
  formatter,             \* which formatter produced formattedMessages
  \* ---- tooledStream ----
  plan,                  \* the tool calls the model is emitting, by index
  sent,                  \* how much of each planned call has been streamed
  textSent,              \* number of text-carrying chunks streamed so far
  arrived,               \* indices in the order their accumulators were created
  toolCallsByIndex,      \* tooledStream's accumulators
  textResponse,          \* result.textResponse
  streamPc,              \* "idle", "streaming" or "done"
  streamResult,          \* the value tooledStream returns
  \* ---- provider adapter ----
  provider,              \* which adapter class the instance is
  envFlag,               \* PROVIDER_SUPPORTS_NATIVE_TOOL_CALLING w.r.t. this provider
  basePathSet,           \* LEMONADE_LLM_BASE_PATH is set
  modelSet,              \* the adapter has a model (config or LEMONADE_LLM_MODEL_PREF)
  supportsToolCalling,   \* this._supportsToolCalling
  preloaded,             \* this.preloaded (Lemonade)
  lastCapability,        \* capabilities.tools of the last metadata query
  adapterPc,             \* where the stream()/complete() call in progress is
  op,                    \* "stream" or "complete"
  functions,             \* the tool list of the call
  retryMessages,         \* retryWithError messages appended by complete()
  path,                  \* "none", "native" or "untooled"
  nativeCalls,           \* invocations of the native driver in this call
  untooledCalls,         \* invocations of the UnTooled driver in this call
  upstreamRequests,      \* chat requests the native driver sent in this call
  metadataQueries,       \* getModelCapabilities() calls in this call
  lastRequest,           \* the last upstream chat request
  lastResponse,          \* the provider's answer to it (non-streaming)
  driverResult,          \* what tooledComplete returned for it
  raised,                \* the error raised inside the native path
  outcome,               \* what stream()/complete() returned or threw
  envReads,              \* reads of the environment flag by the probe, this instance
  probeSource,           \* how the probe answered in this call
  callbackRaised,        \* the error the provider raised to the chat callback
  callbackResult,        \* what #handleFunctionCallChat returned or threw
  \* ---- Ollama prompt-emulated stream() ----
  emuPc,                 \* where the emulated stream() call is
  emuHistory,            \* shape of the user/assistant history of the call
  emuHasTools,           \* functions.length > 0
  emuHandler,            \* an eventHandler was passed
  emuPlan,               \* the text the model streams in answer to the tool prompt
  emuPlainPlan,          \* the text the model streams in answer to the plain prompt
  emuSent,               \* tokens of the plan streamed so far
  emuNoise,              \* chunks without content streamed so far
  emuText,               \* textResponse of streamingFunctionCall
  emuToken,              \* the token variable of the loop
  emuReasoning,          \* reasoningText is non-empty
  emuContent,            \* completion.content
  emuEvents,             \* events given to the eventHandler in this call
  emuRequests,           \* chat requests sent in this call
  runs,                  \* the deduplicator's recorded runs
  runsAtStart,           \* the recorded runs when the call began
  emuRaised,             \* the error a chat request raised
  emuResult,             \* what stream() returned or threw
  emuLog                 \* the result of the call before this one

\* tooledStream's event reporting
VARIABLES
  streamHandler,  \* whether an eventHandler was passed
  streamEvents,   \* the events given to the eventHandler, in order
  textArrived     \* the delta.content of the chunks that carried text, in order

rvars == <<messages, injectReasoningContent, formattedMessages, formatter>>
svars == <<plan, sent, textSent, arrived, toolCallsByIndex, textResponse, streamPc,
           streamResult, streamHandler, streamEvents, textArrived>>

avars == <<provider, envFlag, basePathSet, modelSet, supportsToolCalling,
           preloaded, lastCapability, adapterPc, op, functions, retryMessages,
           path, nativeCalls, untooledCalls, upstreamRequests, metadataQueries,
           lastRequest, lastResponse, driverResult, raised, outcome,
           envReads, probeSource, callbackRaised, callbackResult>>

pvars == <<envReads, probeSource>>
cvars == <<callbackRaised, callbackResult>>

\* tooledStream / tooledComplete called with a function list
VARIABLES
  tooledFunctions,  \* the functions argument
  tooledOp,         \* "none", "stream" or "complete"
  tooledRequest     \* the body handed to client.chat.completions.create
tvars == <<tooledFunctions, tooledOp, tooledRequest>>

\* The browser's LemonadeUtils.downloadModel
VARIABLES
  dlPc,        \* "idle", "fetching", "reading" or "settled"
  dlChunks,    \* chunks read from the response body
  dlReceived,  \* the lines of those chunks, in order
  dlDone,      \* the loop's done flag
  dlResolved,  \* <<>> until the promise is resolved, then <<its value>>
  dlProgress   \* the arguments progressCallback was called with, in order
dvars == <<dlPc, dlChunks, dlReceived, dlDone, dlResolved, dlProgress>>

\* OllamaProvider.stream on the native path
VARIABLES
  olPc,        \* "idle", "streaming" or "done"
  olHandler,   \* whether an eventHandler was passed
  olChunks,    \* the chunks the stream has delivered, in order
  olText,      \* textResponse
  olToolCalls, \* toolCalls (<<>> is null)
  olEvents,    \* the events given to the eventHandler
  olResult     \* <<>> until stream() returns, then <<its value>>
ovars == <<olPc, olHandler, olChunks, olText, olToolCalls, olEvents, olResult>>

\* Calls that overlap on one adapter instance (Lemonade, Docker Model Runner)
VARIABLES
  ovProvider,  \* "lemonade" or "dmr"
  ovEnvFlag,   \* PROVIDER_SUPPORTS_NATIVE_TOOL_CALLING, as envFlag
  ovCache,     \* this._supportsToolCalling: "null", "true" or "false"
  ovPc,        \* per call: "idle", "preload", "awaitMeta" or "done"
  ovAnswer,    \* per call: what supportsNativeToolCalling() returned to it
  ovQueries,   \* metadata queries issued for the instance
  ovOverlap    \* a call began while another was in flight and the cache was null
wvars == <<ovProvider, ovEnvFlag, ovCache, ovPc, ovAnswer, ovQueries, ovOverlap>>

\* The download-model relay endpoints (Docker Model Runner, Lemonade)
VARIABLES
  rlKind,      \* "dmr" or "lemonade"
  rlPc,        \* "idle", "fetching", "reading" or "ended"
  rlReads,     \* reads of the upstream body so far
  rlRecords,   \* the records the upstream has sent so far, whole or in part
  rlPending,   \* what the next read must begin with: <<>> or <<item>>
  rlSplit,     \* whether a record's line was split across two reads
  rlDone,      \* the loop's done flag
  rlCurrent,   \* Lemonade's currentEvent ("null" when null)
  rlWritten,   \* the events written to the response, in order
  rlEnded      \* calls of response.end()
yvars == <<rlKind, rlPc, rlReads, rlRecords, rlPending, rlSplit, rlDone, rlCurrent,
           rlWritten, rlEnded>>

evars == <<emuPc, emuHistory, emuHasTools, emuHandler, emuPlan, emuPlainPlan, emuSent,
           emuNoise, emuText, emuToken, emuReasoning, emuContent, emuEvents,
           emuRequests, runs, runsAtStart, emuRaised, emuResult, emuLog>>

vars == <<rvars, svars, avars, evars, tvars, dvars, ovars, wvars, yvars>>

(***************************************************************************)
(* Bounds                                                                  *)
(***************************************************************************)
MaxHistory == 3
MaxIndex == 1      \* tool-call indices 0..MaxIndex
MaxText == 2       \* text-carrying chunks per stream
MaxEvents == 4     \* events reported in one tooledStream call
MaxTools == 1      \* tools passed to stream()/complete()
MaxFunctions == 2  \* functions passed to tooledStream()/tooledComplete()
MaxChunks == 2     \* chunks of the download response body
MaxOllamaChunks == 2  \* chunks of one native Ollama stream
MaxOverlap == 2    \* calls in flight on one adapter instance
MaxReads == 2      \* reads of the upstream body by a download relay
MaxItems == 2      \* records, whole or in part, in one read
MaxLines == 2      \* lines per chunk
MaxCalls == 2      \* tool calls in one non-streaming response
MaxRequests == 3   \* upstream requests followed within one complete() call
MaxNoise == 1      \* chunks without content in one emulated stream

(***************************************************************************)
(* Values                                                                  *)
(***************************************************************************)
NoId == "none"
Ids == {"X", "Y"}
\* `call_${v4()}`: the n-th identifier drawn from the uuid generator
FreshIds == <<"call_1", "call_2", "call_3", "call_4", "call_5", "call_6">>

RangeOf(s) == {s[i] : i \in 1..Len(s)}

SeqsUpTo(S, n) == UNION {[1..k -> S] : k \in 0..n}

(***************************************************************************)
(* History reconciliation                                                  *)
(***************************************************************************)
\* A history message: role, originalFunctionCall.id (function role), the id of
\* tool_calls[0] (assistant role; NoId = no tool_calls field), and whether a
\* reasoning_content field is present.
UserMsg == [role |-> "user", ofcId |-> NoId, tcId |-> NoId, rc |-> "absent"]
AssistantMsgs ==
  {[role |-> "assistant", ofcId |-> NoId, tcId |-> t, rc |-> r] :
     t \in Ids \cup {NoId}, r \in {"absent", "given"}}
FunctionMsgs ==
  {[role |-> "function", ofcId |-> f, tcId |-> NoId, rc |-> "absent"] :
     f \in Ids \cup {NoId}}
Message == {UserMsg} \cup AssistantMsgs \cup FunctionMsgs

\* Histories the orchestrator can hold: a provider never reuses a call id, and
\* the assistant turn that requested call X is directly followed by the
\* function message that carries the result of X.
WellFormedHistory(h) ==
  /\ \A i, j \in 1..Len(h) :
       (/\ h[i].role = "function" /\ h[j].role = "function"
        /\ h[i].ofcId # NoId /\ h[i].ofcId = h[j].ofcId) => i = j
  /\ \A i, j \in 1..Len(h) :
       (/\ h[i].role = "assistant" /\ h[i].tcId # NoId) =>
         /\ (h[j].role = "assistant" /\ h[j].tcId = h[i].tcId) => i = j
         /\ (h[j].role = "function" /\ h[j].ofcId = h[i].tcId) => j = i + 1

\* Output messages carry two bookkeeping fields: src, the index of the input
\* message they were produced from, and synth, whether they were synthesized.
PassThrough(m, i, reasoning) ==
  [role |-> m.role, calls |-> m.tcId # NoId, tcId |-> m.tcId,
   tool_call_id |-> NoId, rc |-> reasoning, src |-> i, synth |-> FALSE]

\* A synthesized assistant call that never carries reasoning_content
AssistantCallBare(id, i, inject) ==
  [role |-> "assistant", calls |-> TRUE, tcId |-> id, tool_call_id |-> NoId,
   rc |-> "absent", src |-> i, synth |-> TRUE]

AssistantCall(id, i, inject) ==
  [role |-> "assistant", calls |-> TRUE, tcId |-> id, tool_call_id |-> NoId,
   rc |-> IF inject THEN "empty" ELSE "absent", src |-> i, synth |-> TRUE]

ToolResult(id, i) ==
  [role |-> "tool", calls |-> FALSE, tcId |-> NoId, tool_call_id |-> id,
   rc |-> "absent", src |-> i, synth |-> TRUE]

\* A generator that hands out its first identifier every time
FreshUsedNone(out) == 0

FreshUsed(out) ==
  Cardinality({k \in 1..Len(out) :
                 out[k].role = "tool" /\ out[k].tool_call_id \in RangeOf(FreshIds)})

\* if (!prevMsg || prevMsg.role !== "assistant" || !prevMsg.tool_calls)
NeedsAssistantCall(out, id) ==
  \/ Len(out) = 0
  \/ out[Len(out)].role # "assistant"
  \/ ~out[Len(out)].calls

\* FormatStep with the synthesized pair pushed in the wrong order
FormatStepResultFirst(out, m, i, inject) ==
  IF m.role = "function"
  THEN IF m.ofcId # NoId
       THEN Append(out, ToolResult(m.ofcId, i)) \o
            (IF NeedsAssistantCall(out, m.ofcId)
             THEN <<AssistantCall(m.ofcId, i, inject)>>
             ELSE <<>>)
       ELSE LET toolCallId == FreshIds[FreshUsed(out) + 1]
            IN  out \o <<ToolResult(toolCallId, i),
                         AssistantCall(toolCallId, i, inject)>>
  ELSE IF inject /\ m.role = "assistant" /\ m.rc = "absent"
       THEN Append(out, PassThrough(m, i, "empty"))
       ELSE Append(out, PassThrough(m, i, m.rc))

\* One iteration of the loop of formatMessagesForTools
FormatStep(out, m, i, inject) ==
  IF m.role = "function"
  THEN IF m.ofcId # NoId
       THEN (IF NeedsAssistantCall(out, m.ofcId)
             THEN Append(out, AssistantCall(m.ofcId, i, inject))
             ELSE out) \o <<ToolResult(m.ofcId, i)>>
       ELSE LET toolCallId == FreshIds[FreshUsed(out) + 1]
            IN  out \o <<AssistantCall(toolCallId, i, inject),
                         ToolResult(toolCallId, i)>>
  ELSE IF inject /\ m.role = "assistant" /\ m.rc = "absent"
       THEN Append(out, PassThrough(m, i, "empty"))
       ELSE Append(out, PassThrough(m, i, m.rc))

RECURSIVE FormatLoop(_, _, _, _)
FormatLoop(out, ms, i, inject) ==
  IF i > Len(ms) THEN out
  ELSE FormatLoop(FormatStep(out, ms[i], i, inject), ms, i + 1, inject)

FormatMessagesForTools(ms, inject) == FormatLoop(<<>>, ms, 1, inject)

\* ollama.js #formatMessagesForOllamaTools: the synthesized pair has no ids
OllamaStep(out, m, i) ==
  IF m.role = "function"
  THEN out \o <<AssistantCall(NoId, i, FALSE), ToolResult(NoId, i)>>
  ELSE Append(out, PassThrough(m, i, m.rc))

RECURSIVE OllamaLoop(_, _, _)
OllamaLoop(out, ms, i) ==
  IF i > Len(ms) THEN out
  ELSE OllamaLoop(OllamaStep(out, ms[i], i), ms, i + 1)

FormatMessagesForOllamaTools(ms) == OllamaLoop(<<>>, ms, 1)

\* AWSBedrockProvider.#convertToLangchainPrototypesWithTools: same pairing, but
\* an assistant turn is rebuilt from its content alone (new AIMessage({content})),
\* so it carries neither tool calls nor reasoning_content.
BedrockStep(out, m, i) ==
  IF m.role = "function"
  THEN IF m.ofcId # NoId
       THEN (IF NeedsAssistantCall(out, m.ofcId)
             THEN Append(out, AssistantCall(m.ofcId, i, FALSE))
             ELSE out) \o <<ToolResult(m.ofcId, i)>>
       ELSE LET toolCallId == FreshIds[FreshUsed(out) + 1]
            IN  out \o <<AssistantCall(toolCallId, i, FALSE),
                         ToolResult(toolCallId, i)>>
  ELSE Append(out, [PassThrough(m, i, "absent") EXCEPT !.calls = FALSE,
                                                       !.tcId = NoId])

RECURSIVE BedrockLoop(_, _, _)
BedrockLoop(out, ms, i) ==
  IF i > Len(ms) THEN out
  ELSE BedrockLoop(BedrockStep(out, ms[i], i), ms, i + 1)

ConvertToLangchainPrototypesWithTools(ms) == BedrockLoop(<<>>, ms, 1)

ReconcileIdle ==
  /\ messages = <<>>
  /\ injectReasoningContent = FALSE
  /\ formattedMessages = <<>>
  /\ formatter = "none"

StreamIdle ==
  /\ plan = <<>>
  /\ sent = <<>>
  /\ textSent = 0
  /\ arrived = <<>>
  /\ toolCallsByIndex = <<>>
  /\ textResponse = <<>>
  /\ streamPc = "idle"
  /\ streamResult = <<>>
  /\ streamHandler = FALSE
  /\ streamEvents = <<>>
  /\ textArrived = <<>>

RelayIdle ==
  /\ rlKind = "dmr"
  /\ rlPc = "idle"
  /\ rlReads = 0
  /\ rlRecords = <<>>
  /\ rlPending = <<>>
  /\ rlSplit = FALSE
  /\ rlDone = FALSE
  /\ rlCurrent = "null"
  /\ rlWritten = <<>>
  /\ rlEnded = 0

OverlapIdle ==
  /\ ovProvider = "dmr"
  /\ ovEnvFlag = "unset"
  /\ ovCache = "null"
  /\ ovPc = <<>>
  /\ ovAnswer = <<>>
  /\ ovQueries = 0
  /\ ovOverlap = FALSE

OllamaStreamIdle ==
  /\ olPc = "idle"
  /\ olHandler = FALSE
  /\ olChunks = <<>>
  /\ olText = <<>>
  /\ olToolCalls = <<>>
  /\ olEvents = <<>>
  /\ olResult = <<>>

DownloadIdle ==
  /\ dlPc = "idle"
  /\ dlChunks = 0
  /\ dlReceived = <<>>
  /\ dlDone = FALSE
  /\ dlResolved = <<>>
  /\ dlProgress = <<>>

TooledIdle ==
  /\ tooledFunctions = [isArray |-> TRUE, items |-> <<>>]
  /\ tooledOp = "none"
  /\ tooledRequest = <<>>

EmulatedIdle ==
  /\ emuPc = "idle"
  /\ emuHistory = "lastUser"
  /\ emuHasTools = FALSE
  /\ emuHandler = FALSE
  /\ emuPlan = <<>>
  /\ emuPlainPlan = <<>>
  /\ emuSent = 0
  /\ emuNoise = 0
  /\ emuText = <<>>
  /\ emuToken = <<>>
  /\ emuReasoning = FALSE
  /\ emuContent = <<>>
  /\ emuEvents = <<>>
  /\ emuRequests = 0
  /\ runs = {}
  /\ runsAtStart = {}
  /\ emuRaised = <<>>
  /\ emuResult = <<>>
  /\ emuLog = <<>>

AdapterIdle ==
  /\ provider = "azure"
  /\ envFlag = "unset"
  /\ basePathSet = TRUE
  /\ modelSet = TRUE
  /\ supportsToolCalling = "null"
  /\ preloaded = FALSE
  /\ lastCapability = "none"
  /\ adapterPc = "idle"
  /\ op = "none"
  /\ functions = <<>>
  /\ retryMessages = <<>>
  /\ path = "none"
  /\ nativeCalls = 0
  /\ untooledCalls = 0
  /\ upstreamRequests = 0
  /\ metadataQueries = 0
  /\ lastRequest = <<>>
  /\ lastResponse = <<>>
  /\ driverResult = <<>>
  /\ raised = <<>>
  /\ outcome = <<>>
  /\ envReads = 0
  /\ probeSource = "none"
  /\ callbackRaised = <<>>
  /\ callbackResult = <<>>

InitReconcile ==
  /\ AdapterIdle
  /\ EmulatedIdle
  /\ TooledIdle
  /\ DownloadIdle
  /\ OllamaStreamIdle
  /\ OverlapIdle
  /\ RelayIdle
  /\ messages \in {h \in SeqsUpTo(Message, MaxHistory) : WellFormedHistory(h)}
  /\ injectReasoningContent \in BOOLEAN
  /\ formattedMessages = <<>>
  /\ formatter = "none"
  /\ StreamIdle

\* tooledStream / tooledComplete reconcile the history before the request
Reconcile ==
  /\ formatter = "none"
  /\ formattedMessages' = FormatMessagesForTools(messages, injectReasoningContent)
  /\ formatter' = "tools"
  /\ UNCHANGED <<messages, injectReasoningContent, svars, avars, evars, tvars, dvars, ovars, wvars, yvars>>

\* OllamaProvider.stream / complete on the native path
ReconcileOllama ==
  /\ formatter = "none"
  /\ formattedMessages' = FormatMessagesForOllamaTools(messages)
  /\ formatter' = "ollama"
  /\ UNCHANGED <<messages, injectReasoningContent, svars, avars, evars, tvars, dvars, ovars, wvars, yvars>>

\* AWSBedrockProvider.stream / complete on the native path
ReconcileBedrock ==
  /\ formatter = "none"
  /\ formattedMessages' = ConvertToLangchainPrototypesWithTools(messages)
  /\ formatter' = "bedrock"
  /\ UNCHANGED <<messages, injectReasoningContent, svars, avars, evars, tvars, dvars, ovars, wvars, yvars>>

NextReconcile == Reconcile \/ ReconcileOllama \/ ReconcileBedrock

SpecReconcile == InitReconcile /\ [][NextReconcile]_vars

(***************************************************************************)
(* Properties of history reconciliation                                    *)
(***************************************************************************)
FunctionIdx == {i \in 1..Len(messages) : messages[i].role = "function"}
OutIdx == 1..Len(formattedMessages)
ProducedFrom(i) == {k \in OutIdx : formattedMessages[k].src = i}
AssistantCallsOf(id) ==
  {k \in OutIdx : /\ formattedMessages[k].role = "assistant"
                  /\ formattedMessages[k].calls
                  /\ formattedMessages[k].tcId = id}
ToolResultsOf(id) ==
  {k \in OutIdx : /\ formattedMessages[k].role = "tool"
                  /\ formattedMessages[k].tool_call_id = id}

\* C3 (as claimed): for every function message carrying originalFunctionCall.id
\* X the output of formatMessagesForTools holds exactly one assistant call with
\* id X and exactly one tool result with tool_call_id X, the call directly
\* before the result, at the place the function message had among the turns.
C3_OnePairPerId ==
  formatter = "tools" =>
    \A i \in FunctionIdx :
      messages[i].ofcId # NoId =>
        LET X == messages[i].ofcId IN
        /\ Cardinality(AssistantCallsOf(X)) = 1
        /\ Cardinality(ToolResultsOf(X)) = 1
        /\ \A k \in AssistantCallsOf(X), m \in ToolResultsOf(X) :
             /\ m = k + 1
             /\ \A n \in OutIdx : n < k => formattedMessages[n].src < i
             /\ \A n \in OutIdx : n > m => formattedMessages[n].src > i

\* Output order follows input order
OrderPreserved ==
  \A k, n \in OutIdx :
    k < n => formattedMessages[k].src <= formattedMessages[n].src

\* Every non-function message appears exactly once, as itself (the reasoning
\* flag may add an empty reasoning_content to an assistant message)
NonFunctionKept ==
  /\ \A i \in 1..Len(messages) :
       messages[i].role # "function" =>
         /\ Cardinality(ProducedFrom(i)) = 1
         /\ \A k \in ProducedFrom(i) :
              /\ ~formattedMessages[k].synth
              /\ formattedMessages[k].role = messages[i].role
              /\ formattedMessages[k].tcId = messages[i].tcId
              /\ \/ formattedMessages[k].rc = messages[i].rc
                 \/ /\ formatter = "tools" /\ injectReasoningContent
                    /\ messages[i].role = "assistant" /\ messages[i].rc = "absent"
                    /\ formattedMessages[k].rc = "empty"
  /\ \A k \in OutIdx : formattedMessages[k].src \in 1..Len(messages)

\* The messages produced from function message i are an assistant call
\* directly followed by a tool result
ExpandsToPair(i) ==
  \E k \in OutIdx :
    /\ ProducedFrom(i) = {k, k + 1}
    /\ formattedMessages[k].role = "assistant" /\ formattedMessages[k].calls
    /\ formattedMessages[k + 1].role = "tool"

\* The only message produced from function message i is a tool result, and the
\* output message before it is an assistant message that has tool calls
ExpandsToResultOnly(i) ==
  \E k \in OutIdx :
    /\ ProducedFrom(i) = {k}
    /\ formattedMessages[k].role = "tool"
    /\ k > 1
    /\ formattedMessages[k - 1].role = "assistant" /\ formattedMessages[k - 1].calls
    /\ ~formattedMessages[k - 1].synth

\* C4 (as claimed): reconciliation keeps the order of the turns and the
\* non-function messages, and every function message becomes an assistant call
\* followed by a tool result.
C4_OnlyPairs ==
  formatter \in {"tools", "ollama"} =>
    /\ OrderPreserved
    /\ NonFunctionKept
    /\ \A i \in FunctionIdx : ExpandsToPair(i)

\* C4 (amended): reconciliation keeps the order of the turns and the
\* non-function messages; a function message becomes an assistant call followed
\* by a tool result, or, in formatMessagesForTools when it carries an id and the
\* output message before it is an assistant message that already has tool
\* calls, a tool result alone.
C4_OrderKept ==
  formatter \in {"tools", "ollama"} =>
    /\ OrderPreserved
    /\ NonFunctionKept
    /\ \A i \in FunctionIdx :
         \/ ExpandsToPair(i)
         \/ /\ formatter = "tools" /\ messages[i].ofcId # NoId
            /\ ExpandsToResultOnly(i)

\* C4 witness: a history with two turns around a function message whose
\* assistant call was already in the history
C4_Witness ==
  /\ formatter = "tools"
  /\ Len(messages) = 3
  /\ \E i \in FunctionIdx : i = 2 /\ ExpandsToResultOnly(i)
  /\ messages[3].role = "function" /\ ExpandsToPair(3)

\* The id-less function messages of the history
IdLessIdx == {i \in FunctionIdx : messages[i].ofcId = NoId}

\* The output messages produced from function message i are an assistant call
\* and a tool result that carry one and the same id, and no other output
\* message and no message of the history carries that id
FreshPair(i) ==
  \E k \in OutIdx :
    /\ ProducedFrom(i) = {k, k + 1}
    /\ formattedMessages[k].role = "assistant"
    /\ formattedMessages[k].calls
    /\ formattedMessages[k].tcId # NoId
    /\ formattedMessages[k + 1].role = "tool"
    /\ formattedMessages[k + 1].tool_call_id = formattedMessages[k].tcId
    /\ LET id == formattedMessages[k].tcId IN
       /\ \A n \in OutIdx \ {k, k + 1} :
            /\ formattedMessages[n].tcId # id
            /\ formattedMessages[n].tool_call_id # id
       /\ \A j \in 1..Len(messages) :
            messages[j].ofcId # id /\ messages[j].tcId # id

\* C17: in formatMessagesForTools and in the Bedrock converter, the assistant
\* call and the tool result synthesized for a function message without
\* originalFunctionCall.id carry the same id, which differs from the id
\* synthesized for every other id-less function message and from every id
\* present in the history.
C17_FreshIdPerMessage ==
  formatter \in {"tools", "bedrock"} => \A i \in IdLessIdx : FreshPair(i)

\* C17 witness: two id-less function messages next to one that carries an id
C17_Witness ==
  /\ formatter = "bedrock"
  /\ Len(messages) = 3
  /\ Cardinality(IdLessIdx) = 2
  /\ \E i \in FunctionIdx : messages[i].ofcId \in Ids
  /\ \A i \in IdLessIdx : FreshPair(i)

\* C18: formatMessagesForTools with injectReasoningContent set gives every
\* assistant message of its output, passed through or synthesized, a
\* reasoning_content field, and an assistant message that already had one keeps
\* its value; with the flag unset every non-function message is passed through
\* unchanged.
C18_ReasoningContent ==
  formatter = "tools" =>
    IF injectReasoningContent
    THEN \A k \in OutIdx :
           formattedMessages[k].role = "assistant" =>
             /\ formattedMessages[k].rc # "absent"
             /\ (/\ ~formattedMessages[k].synth
                 /\ messages[formattedMessages[k].src].rc = "given") =>
                  formattedMessages[k].rc = "given"
    ELSE \A i \in 1..Len(messages) :
           messages[i].role # "function" =>
             /\ Cardinality(ProducedFrom(i)) = 1
             /\ \A k \in ProducedFrom(i) :
                  /\ ~formattedMessages[k].synth
                  /\ formattedMessages[k].role = messages[i].role
                  /\ formattedMessages[k].tcId = messages[i].tcId
                  /\ formattedMessages[k].rc = messages[i].rc

\* C18 witness: with the flag set, an assistant turn that has reasoning_content,
\* one that has none, and a synthesized assistant call
C18_Witness ==
  /\ formatter = "tools"
  /\ injectReasoningContent
  /\ \E a, b, c \in OutIdx :
       /\ formattedMessages[a].role = "assistant" /\ ~formattedMessages[a].synth
       /\ messages[formattedMessages[a].src].rc = "given"
       /\ formattedMessages[a].rc = "given"
       /\ formattedMessages[b].role = "assistant" /\ ~formattedMessages[b].synth
       /\ messages[formattedMessages[b].src].rc = "absent"
       /\ formattedMessages[b].rc = "empty"
       /\ formattedMessages[c].role = "assistant" /\ formattedMessages[c].synth
       /\ formattedMessages[c].rc = "empty"

\* C21 (as claimed): in formatMessagesForTools and in the Bedrock converter,
\* the tool result of a function message carrying originalFunctionCall.id X is
\* directly preceded by an assistant call with id X: one is synthesized unless
\* the preceding reconciled message already is an assistant call with id X.
C21_CallBeforeResultHasSameId ==
  formatter \in {"tools", "bedrock"} =>
    \A i \in FunctionIdx :
      messages[i].ofcId # NoId =>
        \E k \in ProducedFrom(i) :
          /\ formattedMessages[k].role = "tool"
          /\ formattedMessages[k].tool_call_id = messages[i].ofcId
          /\ k > 1
          /\ formattedMessages[k - 1].role = "assistant"
          /\ formattedMessages[k - 1].calls
          /\ formattedMessages[k - 1].tcId = messages[i].ofcId

(***************************************************************************)
(* JSON texts.  Strings are sequences of tokens; the argument strings of    *)
(* the model are built from the two halves of the object {"q":"cats"}.      *)
(***************************************************************************)
ValidJson == {<<"{}">>, <<"{q:", "cats}">>, <<"null">>}

JsonValue(str) ==
  CASE str = <<"{}">> -> "{}"
    [] str = <<"null">> -> "null"
    [] OTHER -> "{q:cats}"

\* safeJsonParse(jsonString, fallback): the parsed value, or the fallback
\* when the text does not parse
SafeJsonParse(str, fallback) ==
  IF str \in ValidJson THEN JsonValue(str) ELSE fallback

(***************************************************************************)
(* tooledStream: assembly of streamed tool calls                           *)
(***************************************************************************)
Indices == 0..MaxIndex
NoCallId == 0                   \* a fragment without an id
CallIdOf(i) == i + 1            \* the id the provider gave the call at index i
NoIndex == -1                   \* a fragment without an index field
ToolName == <<"search">>
ArgStrings == {<<"{q:", "cats}">>, <<"{q:">>}
TextTokens == {<<"t">>, <<"u">>}

PlannedCalls(i) ==
  {[id |-> CallIdOf(i), name |-> ToolName, arguments |-> a] : a \in ArgStrings}

\* What the model wants to call in this turn: at most two parallel calls,
\* the call at index i carrying the id of index i
Plans ==
  UNION {{p \in [S -> UNION {PlannedCalls(i) : i \in S}] :
            \A i \in S : p[i].id = CallIdOf(i)} :
           S \in {T \in SUBSET Indices : Cardinality(T) <= 2}}

\* const idx = toolCall.index ?? 0
IndexOf(f) == IF f.index = NoIndex THEN 0 ELSE f.index

\* The delta fragments the provider can send next for the planned calls: the
\* next piece of the name and of the arguments, with or without the id
FragmentsFor(p, sn) ==
  {f \in
    UNION {
      {[index |-> ix,
        id |-> IF withId THEN p[i].id ELSE NoCallId,
        name |-> SubSeq(p[i].name, sn[i].name + 1, sn[i].name + n),
        arguments |-> SubSeq(p[i].arguments, sn[i].args + 1, sn[i].args + m)] :
         ix \in (IF i = 0 THEN {0, NoIndex} ELSE {i}),
         withId \in BOOLEAN,
         n \in 0..(Len(p[i].name) - sn[i].name),
         m \in 0..(Len(p[i].arguments) - sn[i].args)} : i \in DOMAIN p} :
    f.id # NoCallId \/ f.name # <<>> \/ f.arguments # <<>>}

Advance(sn, f) ==
  [sn EXCEPT ![IndexOf(f)] =
     [name |-> @.name + Len(f.name),
      args |-> @.args + Len(f.arguments),
      id |-> @.id \/ f.id # NoCallId]]

\* The whole call of index i in one fragment
WholeCall(p, i) ==
  [index |-> i, id |-> p[i].id, name |-> p[i].name, arguments |-> p[i].arguments]

\* delta.tool_calls of one chunk: nothing, one fragment, or two parallel calls
\* delivered whole
FragmentSeqs(p, sn) ==
  {<<>>} \cup {<<f>> : f \in FragmentsFor(p, sn)}
         \cup {fs \in {<<WholeCall(p, i), WholeCall(p, j)>> : i, j \in
                          {k \in DOMAIN p : sn[k].name = 0 /\ sn[k].args = 0}} :
                  fs[1].index # fs[2].index}

RECURSIVE AdvanceAll(_, _)
AdvanceAll(sn, fs) ==
  IF fs = <<>> THEN sn ELSE AdvanceAll(Advance(sn, Head(fs)), Tail(fs))

\* The chunks the stream can deliver next.  choice = FALSE is a chunk without
\* choices[0].
Chunks(p, sn, nText) ==
  {[choice |-> FALSE, content |-> <<>>, tool_calls |-> <<>>]} \cup
  {[choice |-> TRUE, content |-> c, tool_calls |-> fs] :
     c \in {<<>>} \cup (IF nText < MaxText THEN TextTokens ELSE {}),
     fs \in FragmentSeqs(p, sn)}

\* Body of `for (const toolCall of choice.delta.tool_calls)`
MergeFragment(acc, f) ==
  LET idx == IndexOf(f) IN
  IF f.id # NoCallId
  THEN (idx :> [id |-> f.id, name |-> f.name, arguments |-> f.arguments]) @@ acc
  ELSE IF idx \in DOMAIN acc
       THEN [acc EXCEPT ![idx] =
               [id |-> @.id,
                name |-> @.name \o f.name,
                arguments |-> @.arguments \o f.arguments]]
       ELSE acc

RECURSIVE MergeAll(_, _)
MergeAll(acc, fs) ==
  IF fs = <<>> THEN acc ELSE MergeAll(MergeFragment(acc, Head(fs)), Tail(fs))

RECURSIVE ArrivalOrder(_, _, _)
ArrivalOrder(order, acc, fs) ==
  IF fs = <<>> THEN order
  ELSE LET idx == IndexOf(Head(fs))
           next == MergeFragment(acc, Head(fs))
       IN  ArrivalOrder(IF idx \in DOMAIN next /\ idx \notin DOMAIN acc
                        THEN Append(order, idx) ELSE order,
                        next, Tail(fs))

MinOf(S) == CHOOSE x \in S : \A y \in S : x <= y
MaxOf(S) == CHOOSE x \in S : \A y \in S : x >= y

\* Variants of the final selection: null on a parse failure, highest index
StreamFunctionCallNullOnFail(acc) ==
  IF DOMAIN acc = {} THEN <<>>
  ELSE LET firstToolCall == acc[MinOf(DOMAIN acc)] IN
       IF firstToolCall.arguments \in ValidJson
       THEN <<[id |-> firstToolCall.id,
               name |-> firstToolCall.name,
               arguments |-> SafeJsonParse(firstToolCall.arguments, "{}")]>>
       ELSE <<>>

StreamFunctionCallHighest(acc) ==
  IF DOMAIN acc = {} THEN <<>>
  ELSE LET firstToolCall == acc[MaxOf(DOMAIN acc)] IN
       <<[id |-> firstToolCall.id,
          name |-> firstToolCall.name,
          arguments |-> SafeJsonParse(firstToolCall.arguments, "{}")]>>

\* After the loop: result.functionCall (<<>> is null, <<c>> is the call c)
StreamFunctionCall(acc) ==
  IF DOMAIN acc = {} THEN <<>>
  ELSE LET firstToolCall == acc[MinOf(DOMAIN acc)] IN
       <<[id |-> firstToolCall.id,
          name |-> firstToolCall.name,
          arguments |-> SafeJsonParse(firstToolCall.arguments, "{}")]>>

\* const msgUUID = v4(), and `${msgUUID}:tool_call_invocation`
MsgUUID == <<"msgUUID">>
ToolCallUUID == <<"msgUUID", ":tool_call_invocation">>

TextResponseChunk(content) ==
  [type |-> "textResponseChunk", uuid |-> MsgUUID, content |-> content]

\* `Assembling Tool Call: ${name}(${arguments})`
ToolCallInvocation(call) ==
  [type |-> "toolCallInvocation", uuid |-> ToolCallUUID,
   content |-> call.name \o <<"(">> \o call.arguments \o <<")">>]

\* The events of `for (const toolCall of choice.delta.tool_calls)`
RECURSIVE ToolCallEvents(_, _)
ToolCallEvents(acc, fs) ==
  IF fs = <<>> THEN <<>>
  ELSE LET idx == IndexOf(Head(fs))
           next == MergeFragment(acc, Head(fs))
       IN  (IF idx \in DOMAIN next
            THEN <<ToolCallInvocation(next[idx])>> ELSE <<>>)
           \o ToolCallEvents(next, Tail(fs))

\* eventHandler?.("reportStreamEvent", ...) over one chunk
ChunkEvents(handler, acc, chunk) ==
  IF ~handler \/ ~chunk.choice THEN <<>>
  ELSE (IF chunk.content # <<>> THEN <<TextResponseChunk(chunk.content)>> ELSE <<>>)
       \o ToolCallEvents(acc, chunk.tool_calls)

\* The text put in front of what was accumulated
PrependText(text, content) == content \o text

\* result.textResponse += choice.delta.content
AppendText(text, content) == text \o content

InitStream ==
  /\ ReconcileIdle
  /\ AdapterIdle
  /\ EmulatedIdle
  /\ TooledIdle
  /\ DownloadIdle
  /\ OllamaStreamIdle
  /\ OverlapIdle
  /\ RelayIdle
  /\ plan \in Plans
  /\ sent = [i \in DOMAIN plan |-> [name |-> 0, args |-> 0, id |-> FALSE]]
  /\ textSent = 0
  /\ arrived = <<>>
  /\ toolCallsByIndex = <<>>
  /\ textResponse = <<>>
  /\ streamPc = "streaming"
  /\ streamResult = <<>>
  /\ streamHandler = FALSE
  /\ streamEvents = <<>>
  /\ textArrived = <<>>

\* tooledStream called with or without an eventHandler, for a turn in which
\* the model wants at most one call
InitStreamEvents ==
  /\ ReconcileIdle
  /\ AdapterIdle
  /\ EmulatedIdle
  /\ TooledIdle
  /\ DownloadIdle
  /\ OllamaStreamIdle
  /\ OverlapIdle
  /\ RelayIdle
  /\ plan \in {p \in Plans : DOMAIN p \subseteq {0}}
  /\ sent = [i \in DOMAIN plan |-> [name |-> 0, args |-> 0, id |-> FALSE]]
  /\ textSent = 0
  /\ arrived = <<>>
  /\ toolCallsByIndex = <<>>
  /\ textResponse = <<>>
  /\ streamPc = "streaming"
  /\ streamResult = <<>>
  /\ streamHandler \in BOOLEAN
  /\ streamEvents = <<>>
  /\ textArrived = <<>>

\* One iteration of `for await (const chunk of stream)`
StreamChunk ==
  /\ streamPc = "streaming"
  /\ \E chunk \in Chunks(plan, sent, textSent) :
       /\ sent' = AdvanceAll(sent, chunk.tool_calls)
       /\ textSent' = IF chunk.content # <<>> THEN textSent + 1 ELSE textSent
       /\ IF ~chunk.choice
          THEN UNCHANGED <<textResponse, toolCallsByIndex, arrived>>
          ELSE /\ textResponse' = AppendText(textResponse, chunk.content)
               /\ toolCallsByIndex' = MergeAll(toolCallsByIndex, chunk.tool_calls)
               /\ arrived' = ArrivalOrder(arrived, toolCallsByIndex, chunk.tool_calls)
       /\ textArrived' = IF chunk.content # <<>>
                         THEN Append(textArrived, chunk.content) ELSE textArrived
       /\ streamEvents' =
            streamEvents \o ChunkEvents(streamHandler, toolCallsByIndex, chunk)
       /\ Len(streamEvents') <= MaxEvents
  /\ UNCHANGED <<plan, streamPc, streamResult, streamHandler, rvars, avars, evars, tvars, dvars, ovars, wvars, yvars>>

\* The stream ends: pick the call to return
StreamEnd ==
  /\ streamPc = "streaming"
  /\ streamPc' = "done"
  /\ streamResult' = <<[textResponse |-> textResponse,
                        functionCall |-> StreamFunctionCall(toolCallsByIndex)]>>
  /\ UNCHANGED <<plan, sent, textSent, arrived, toolCallsByIndex, textResponse,
                 streamHandler, streamEvents, textArrived, rvars, avars, evars, tvars, dvars, ovars, wvars, yvars>>

NextStream == StreamChunk \/ StreamEnd

SpecStream == InitStream /\ [][NextStream]_vars

SpecStreamEvents == InitStreamEvents /\ [][NextStream]_vars

(***************************************************************************)
(* Properties of tooledStream                                              *)
(***************************************************************************)
Returned == streamResult[1].functionCall
HasAccumulator == DOMAIN toolCallsByIndex # {}
LowestAccumulator == toolCallsByIndex[MinOf(DOMAIN toolCallsByIndex)]

\* Every piece of the planned call at index i, and its id, has been streamed
FullyDelivered(i) ==
  /\ sent[i].name = Len(plan[i].name)
  /\ sent[i].args = Len(plan[i].arguments)
  /\ sent[i].id

\* C5 (as claimed): however the call of the lowest index was split into
\* fragments (ids repeated, pieces before the id included), once all of it has
\* been streamed tooledStream returns the functionCall it returns when the call
\* arrives in a single fragment.
C5_FragmentationIndependent ==
  (streamPc = "done" /\ DOMAIN plan # {}) =>
    LET i == MinOf(DOMAIN plan) IN
    FullyDelivered(i) =>
      Returned = StreamFunctionCall(MergeFragment(<<>>, WholeCall(plan, i)))

C7_LowestIndexWins ==
  streamPc = "done" =>
    IF ~HasAccumulator
    THEN Returned = <<>>
    ELSE /\ Len(Returned) = 1
         /\ \E i \in DOMAIN toolCallsByIndex :
              /\ \A j \in DOMAIN toolCallsByIndex : i <= j
              /\ Returned[1].id = toolCallsByIndex[i].id
              /\ Returned[1].name = toolCallsByIndex[i].name
              /\ Returned[1].arguments =
                   SafeJsonParse(toolCallsByIndex[i].arguments, "{}")

RECURSIVE ConcatAll(_)
ConcatAll(ss) == IF ss = <<>> THEN <<>> ELSE Head(ss) \o ConcatAll(Tail(ss))

RECURSIVE ContentsOfType(_, _)
ContentsOfType(events, type) ==
  IF events = <<>> THEN <<>>
  ELSE (IF Head(events).type = type THEN <<Head(events).content>> ELSE <<>>)
       \o ContentsOfType(Tail(events), type)

\* C22: tooledStream returns as textResponse the concatenation, in arrival
\* order, of the text of all fragments; with an eventHandler, one
\* textResponseChunk event is emitted per text-carrying fragment, in the same
\* order, all under one uuid, and every tool-call progress event is emitted
\* under one other uuid derived from it.
C22_TextAndEvents ==
  streamPc = "done" =>
    /\ streamResult[1].textResponse = ConcatAll(textArrived)
    /\ streamHandler =>
         /\ ContentsOfType(streamEvents, "textResponseChunk") = textArrived
         /\ \A k \in 1..Len(streamEvents) :
              \/ /\ streamEvents[k].type = "textResponseChunk"
                 /\ streamEvents[k].uuid = MsgUUID
              \/ /\ streamEvents[k].type = "toolCallInvocation"
                 /\ streamEvents[k].uuid = ToolCallUUID
                 /\ streamEvents[k].uuid # MsgUUID
                 /\ Head(streamEvents[k].uuid) = Head(MsgUUID)
    /\ ~streamHandler => streamEvents = <<>>

\* C22 witness: two different text fragments with a tool-call fragment between
\* them, reported to an eventHandler
C22_Witness ==
  /\ streamPc = "done"
  /\ streamHandler
  /\ textArrived = <<<<"u">>, <<"t">>>>
  /\ streamResult[1].textResponse = <<"u", "t">>
  /\ Len(streamEvents) >= 3
  /\ streamEvents[1].type = "textResponseChunk"
  /\ streamEvents[2].type = "toolCallInvocation"
  /\ streamEvents[Len(streamEvents)].type = "textResponseChunk"

\* C7 witness: two accumulators, the higher index created first
C7_Witness ==
  /\ streamPc = "done"
  /\ Len(arrived) = 2 /\ arrived[1] > arrived[2]
  /\ Returned # <<>> /\ Returned[1].id = CallIdOf(arrived[2])

(***************************************************************************)
(* Provider adapters: probe, path selection, native driver, errors         *)
(***************************************************************************)
Providers == {"azure", "lemonade", "localai", "dmr", "generic", "lmstudio",
              "deepseek", "openrouter", "ollama", "bedrock"}

\* How supportsNativeToolCalling() decides: no probe at all, a constant,
\* the environment flag, the model's metadata, or the flag and then metadata
ProbeKind(p) ==
  CASE p = "azure" -> "none"
    [] p = "deepseek" -> "const"
    [] p \in {"localai", "generic", "openrouter", "bedrock"} -> "env"
    [] p \in {"dmr", "lmstudio", "ollama"} -> "meta"
    [] p = "lemonade" -> "envmeta"

\* Adapters whose native path is tooledStream/tooledComplete inside the
\* OpenAI error classification
UsesTooledHelpers(p) == p \notin {"ollama", "bedrock"}

\* PROVIDER_SUPPORTS_NATIVE_TOOL_CALLING: unset, set without this provider's
\* name, or set with it
EnvFlags == {"unset", "other", "named"}

\* process.env.PROVIDER_SUPPORTS_NATIVE_TOOL_CALLING?.includes(name)
\* The flag counts whenever it is set, whatever it names
EnvIsSet(flag) ==
  CASE flag = "unset" -> "undefined"
    [] flag = "other" -> "true"
    [] flag = "named" -> "true"

EnvIncludes(flag) ==
  CASE flag = "unset" -> "undefined"
    [] flag = "other" -> "false"
    [] flag = "named" -> "true"

\* capabilities.tools as getModelCapabilities() reports it
Capabilities(p) ==
  IF p = "lemonade" THEN {"true", "false", "unknown"}
  ELSE {"true", "false", "unknown", "undefined"}

\* The cache test done by truthiness: only a true answer counts as cached
IsResolvedTruthy(cached) == cached = "true"

\* this._supportsToolCalling !== null
IsResolved(cached) == cached # "null"

\* capabilities.tools == true, compared loosely by truthiness
LooseTrue(cap) == IF cap \in {"true", "unknown"} THEN "true" ELSE "false"

\* capabilities.tools === true
StrictTrue(cap) == IF cap = "true" THEN "true" ELSE "false"

\* functions.length > 0 is dropped from the path selection
AnyTools(fns) == TRUE

\* functions.length > 0
HasTools(fns) == Len(fns) > 0

ToolDef(i) == [name |-> i, description |-> i, parameters |-> i]

FunctionLists == {[i \in 1..k |-> ToolDef(i)] : k \in 0..MaxTools}

\* The tool entries in the opposite order
FormatFunctionsReversed(fns) ==
  [i \in 1..Len(fns) |->
     [type |-> "function",
      function |-> [name |-> fns[Len(fns) + 1 - i].name,
                    description |-> fns[Len(fns) + 1 - i].description,
                    parameters |-> fns[Len(fns) + 1 - i].parameters]]]

\* formatFunctionsToTools(functions)
FormatFunctionsToTools(fns) ==
  [i \in 1..Len(fns) |->
     [type |-> "function",
      function |-> [name |-> fns[i].name, description |-> fns[i].description,
                    parameters |-> fns[i].parameters]]]

\* The request body: ...(tools.length > 0 ? { tools } : {})
TooledRequest(fns) ==
  LET tools == FormatFunctionsToTools(fns)
  IN [hasTools |-> Len(tools) > 0, tools |-> tools]

\* Ollama passes tools unconditionally
OllamaRequest(fns) == [hasTools |-> TRUE, tools |-> FormatFunctionsToTools(fns)]

\* Errors: the classes the client can raise, and anything else
ErrorKinds == {"AuthenticationError", "RateLimitError", "InternalServerError",
               "APIError", "Error"}
ErrorMessages == {"m1", "m2"}
Errors == [kind : ErrorKinds, message : ErrorMessages]

\* error instanceof OpenAI.<cls>: the three specific classes extend APIError
InstanceOf(e, cls) ==
  \/ e.kind = cls
  \/ cls = "APIError" /\ e.kind \in {"AuthenticationError", "RateLimitError",
                                     "InternalServerError"}

RetryError(message) == [kind |-> "RetryError", message |-> message]

\* The catch block with the APIError test ahead of the authentication test
ClassifyApiFirst(e) ==
  IF \/ InstanceOf(e, "RateLimitError")
     \/ InstanceOf(e, "InternalServerError")
     \/ InstanceOf(e, "APIError")
  THEN RetryError(e.message)
  ELSE e

\* The catch block of the native path: what it throws for the caught error
Classify(e) ==
  IF InstanceOf(e, "AuthenticationError") THEN e
  ELSE IF \/ InstanceOf(e, "RateLimitError")
          \/ InstanceOf(e, "InternalServerError")
          \/ InstanceOf(e, "APIError")
       THEN RetryError(e.message)
       ELSE e

\* Non-streaming responses: choices[0].message with content and tool_calls
\* The call at position i of a response carries the i-th id
CallIds == <<"call_a", "call_b", "call_c", "call_d">>
CompleteArgStrings == ArgStrings \cup {<<"null">>}
ToolCallsAt(i) ==
  {[id |-> CallIds[i], name |-> ToolName, arguments |-> a] :
     a \in CompleteArgStrings}
Responses ==
  {[content |-> c, tool_calls |-> <<>>] : c \in {<<>>, <<"hello">>}} \cup
  {[content |-> <<>>, tool_calls |-> tc] :
     tc \in {t \in SeqsUpTo(UNION {ToolCallsAt(i) : i \in 1..MaxCalls}, MaxCalls) :
               /\ Len(t) > 0
               /\ \A i \in 1..Len(t) : t[i] \in ToolCallsAt(i)}}

NoCall == <<>>

RetrySignal(toolCall) ==
  [role |-> "function",
   name |-> toolCall.name,
   content |-> <<"Failed to parse tool call arguments as JSON. Raw arguments: ">>
                 \o toolCall.arguments,
   originalFunctionCall |-> [id |-> toolCall.id, name |-> toolCall.name,
                             arguments |-> toolCall.arguments]]

FunctionCallOf(toolCall, args) ==
  [id |-> toolCall.id, name |-> toolCall.name, arguments |-> args]

\* tooledComplete taking the last tool call instead of the first
TooledCompleteLast(response) ==
  IF Len(response.tool_calls) > 0
  THEN LET toolCall == response.tool_calls[Len(response.tool_calls)]
           functionArgs == SafeJsonParse(toolCall.arguments, "null")
       IN IF functionArgs = "null"
          THEN [textResponse |-> <<>>, functionCall |-> NoCall,
                retryWithError |-> <<RetrySignal(toolCall)>>]
          ELSE [textResponse |-> <<>>,
                functionCall |-> <<FunctionCallOf(toolCall, functionArgs)>>,
                retryWithError |-> <<>>]
  ELSE [textResponse |-> response.content, functionCall |-> NoCall,
        retryWithError |-> <<>>]

\* tooledComplete: what it returns for the provider's response
TooledComplete(response) ==
  IF Len(response.tool_calls) > 0
  THEN LET toolCall == response.tool_calls[1]
           functionArgs == SafeJsonParse(toolCall.arguments, "null")
       IN IF functionArgs = "null"
          THEN [textResponse |-> <<>>, functionCall |-> NoCall,
                retryWithError |-> <<RetrySignal(toolCall)>>]
          ELSE [textResponse |-> <<>>,
                functionCall |-> <<FunctionCallOf(toolCall, functionArgs)>>,
                retryWithError |-> <<>>]
  ELSE [textResponse |-> response.content, functionCall |-> NoCall,
        retryWithError |-> <<>>]

\* The native non-streaming result of the Ollama and Bedrock adapters: the
\* first tool call, arguments parsed with an empty object as the fallback
OwnNativeComplete(p, response) ==
  IF Len(response.tool_calls) > 0
  THEN LET toolCall == response.tool_calls[1]
       IN [textResponse |-> <<>>,
           functionCall |->
             <<[id |-> IF p = "ollama" THEN "ollama_fresh" ELSE toolCall.id,
                name |-> toolCall.name,
                arguments |-> SafeJsonParse(toolCall.arguments, "{}")]>>,
           retryWithError |-> <<>>]
  ELSE [textResponse |-> response.content, functionCall |-> NoCall,
        retryWithError |-> <<>>]

Ops == {"stream", "complete"}

Thrown(e) == [kind |-> "thrown", error |-> <<e>>, result |-> <<>>]
ReturnedValue(r) == [kind |-> "returned", error |-> <<>>, result |-> <<r>>]
ReturnedNothing == [kind |-> "returned", error |-> <<>>, result |-> <<>>]

TextResult(t) ==
  [textResponse |-> t, functionCall |-> NoCall, retryWithError |-> <<>>]

\* What a native stream can resolve to: text, or the call it assembled
StreamResults ==
  {TextResult(<<"hello">>)} \cup
  {[textResponse |-> <<>>,
    functionCall |-> <<[id |-> "call_a", name |-> ToolName, arguments |-> v]>>,
    retryWithError |-> <<>>] : v \in {"{}", "{q:cats}"}}

PathFor(answer) == IF answer = "true" THEN "native" ELSE "untooled"

InitAdapter ==
  /\ ReconcileIdle
  /\ StreamIdle
  /\ EmulatedIdle
  /\ TooledIdle
  /\ DownloadIdle
  /\ OllamaStreamIdle
  /\ OverlapIdle
  /\ RelayIdle
  /\ provider \in Providers
  /\ envFlag \in EnvFlags
  /\ basePathSet \in IF provider = "lemonade" THEN BOOLEAN ELSE {TRUE}
  /\ modelSet \in IF provider = "lemonade" THEN BOOLEAN ELSE {TRUE}
  /\ supportsToolCalling = "null"
  /\ preloaded = FALSE
  /\ lastCapability = "none"
  /\ adapterPc = "idle"
  /\ op = "none"
  /\ functions = <<>>
  /\ retryMessages = <<>>
  /\ path = "none"
  /\ nativeCalls = 0
  /\ untooledCalls = 0
  /\ upstreamRequests = 0
  /\ metadataQueries = 0
  /\ lastRequest = <<>>
  /\ lastResponse = <<>>
  /\ driverResult = <<>>
  /\ raised = <<>>
  /\ outcome = <<>>
  /\ envReads = 0
  /\ probeSource = "none"
  /\ callbackRaised = <<>>
  /\ callbackResult = <<>>

\* stream(messages, functions) or complete(messages, functions) is called;
\* Lemonade awaits preloadModel() first
BeginCall ==
  /\ adapterPc = "idle"
  /\ \E o \in Ops, fns \in FunctionLists :
       /\ op' = o
       /\ functions' = fns
  /\ preloaded' = IF provider = "lemonade" THEN TRUE ELSE preloaded
  /\ adapterPc' = "select"
  /\ retryMessages' = <<>>
  /\ path' = "none"
  /\ nativeCalls' = 0
  /\ untooledCalls' = 0
  /\ upstreamRequests' = 0
  /\ metadataQueries' = 0
  /\ lastRequest' = <<>>
  /\ lastResponse' = <<>>
  /\ driverResult' = <<>>
  /\ raised' = <<>>
  /\ outcome' = <<>>
  /\ probeSource' = "none"
  /\ callbackRaised' = <<>>
  /\ callbackResult' = <<>>
  /\ UNCHANGED <<provider, envFlag, basePathSet, modelSet, supportsToolCalling,
                 lastCapability, envReads, rvars, svars, evars, tvars, dvars, ovars, wvars, yvars>>

\* Azure: no probe and no fallback, the native driver is always used
SelectNoProbe ==
  /\ adapterPc = "select"
  /\ ProbeKind(provider) = "none"
  /\ path' = "native"
  /\ adapterPc' = "native"
  /\ UNCHANGED <<provider, envFlag, basePathSet, modelSet, supportsToolCalling,
                 preloaded, lastCapability, op, functions, retryMessages,
                 nativeCalls, untooledCalls, upstreamRequests, metadataQueries,
                 lastRequest, lastResponse, driverResult, raised, outcome,
                 rvars, svars, evars, tvars, dvars, pvars, cvars, ovars, wvars, yvars>>

\* functions.length > 0 && ...: with no tools the probe is not evaluated
SelectNoTools ==
  /\ adapterPc = "select"
  /\ ProbeKind(provider) # "none"
  /\ ~HasTools(functions)
  /\ path' = "untooled"
  /\ adapterPc' = "untooled"
  /\ UNCHANGED <<provider, envFlag, basePathSet, modelSet, supportsToolCalling,
                 preloaded, lastCapability, op, functions, retryMessages,
                 nativeCalls, untooledCalls, upstreamRequests, metadataQueries,
                 lastRequest, lastResponse, driverResult, raised, outcome,
                 rvars, svars, evars, tvars, dvars, pvars, cvars, ovars, wvars, yvars>>

\* DeepSeek: supportsNativeToolCalling() returns true
SelectConst ==
  /\ adapterPc = "select"
  /\ ProbeKind(provider) = "const"
  /\ HasTools(functions)
  /\ path' = "native"
  /\ adapterPc' = "native"
  /\ probeSource' = "const"
  /\ UNCHANGED <<provider, envFlag, basePathSet, modelSet, supportsToolCalling,
                 preloaded, lastCapability, op, functions, retryMessages,
                 nativeCalls, untooledCalls, upstreamRequests, metadataQueries,
                 lastRequest, lastResponse, driverResult, raised, outcome,
                 rvars, svars, evars, tvars, dvars, envReads, cvars, ovars, wvars, yvars>>

\* if (this._supportsToolCalling !== null) return this._supportsToolCalling
SelectCached ==
  /\ adapterPc = "select"
  /\ ProbeKind(provider) \in {"env", "meta", "envmeta"}
  /\ HasTools(functions)
  /\ IsResolved(supportsToolCalling)
  /\ path' = PathFor(supportsToolCalling)
  /\ adapterPc' = path'
  /\ probeSource' = "cache"
  /\ UNCHANGED <<provider, envFlag, basePathSet, modelSet, supportsToolCalling,
                 preloaded, lastCapability, op, functions, retryMessages,
                 nativeCalls, untooledCalls, upstreamRequests, metadataQueries,
                 lastRequest, lastResponse, driverResult, raised, outcome,
                 rvars, svars, evars, tvars, dvars, envReads, cvars, ovars, wvars, yvars>>

\* LocalAI, Generic OpenAI, OpenRouter, Bedrock: the environment flag decides
SelectEnv ==
  /\ adapterPc = "select"
  /\ ProbeKind(provider) = "env"
  /\ HasTools(functions)
  /\ ~IsResolved(supportsToolCalling)
  /\ supportsToolCalling' = EnvIncludes(envFlag)
  /\ path' = PathFor(supportsToolCalling')
  /\ adapterPc' = path'
  /\ envReads' = envReads + 1
  /\ probeSource' = "env"
  /\ UNCHANGED <<provider, envFlag, basePathSet, modelSet,
                 preloaded, lastCapability, op, functions, retryMessages,
                 nativeCalls, untooledCalls, upstreamRequests, metadataQueries,
                 lastRequest, lastResponse, driverResult, raised, outcome,
                 rvars, svars, evars, tvars, dvars, cvars, ovars, wvars, yvars>>

\* Docker Model Runner, LM Studio, Ollama: the model's metadata is queried
SelectMeta ==
  /\ adapterPc = "select"
  /\ ProbeKind(provider) = "meta"
  /\ HasTools(functions)
  /\ ~IsResolved(supportsToolCalling)
  /\ metadataQueries' = metadataQueries + 1
  /\ adapterPc' = "probing"
  /\ probeSource' = "meta"
  /\ UNCHANGED <<provider, envFlag, basePathSet, modelSet, supportsToolCalling,
                 preloaded, lastCapability, op, functions, retryMessages, path,
                 nativeCalls, untooledCalls, upstreamRequests,
                 lastRequest, lastResponse, driverResult, raised, outcome,
                 rvars, svars, evars, tvars, dvars, envReads, cvars, ovars, wvars, yvars>>

\* Lemonade: new LemonadeLLM(null, model) throws on missing configuration;
\* then the environment flag, then the model's labels
SelectLemonade ==
  /\ adapterPc = "select"
  /\ ProbeKind(provider) = "envmeta"
  /\ HasTools(functions)
  /\ ~IsResolved(supportsToolCalling)
  /\ IF ~(basePathSet /\ modelSet)
     THEN /\ outcome' = <<Thrown([kind |-> "Error", message |-> "config"])>>
          /\ adapterPc' = "done"
          /\ UNCHANGED <<supportsToolCalling, path, metadataQueries, pvars>>
     ELSE IF EnvIncludes(envFlag) = "true"
     THEN /\ supportsToolCalling' = "true"
          /\ path' = "native"
          /\ adapterPc' = "native"
          /\ envReads' = envReads + 1
          /\ probeSource' = "env"
          /\ UNCHANGED <<outcome, metadataQueries>>
     ELSE /\ metadataQueries' = metadataQueries + 1
          /\ adapterPc' = "probing"
          /\ envReads' = envReads + 1
          /\ probeSource' = "meta"
          /\ UNCHANGED <<supportsToolCalling, path, outcome>>
  /\ UNCHANGED <<provider, envFlag, basePathSet, modelSet,
                 preloaded, lastCapability, op, functions, retryMessages,
                 nativeCalls, untooledCalls, upstreamRequests,
                 lastRequest, lastResponse, driverResult, raised,
                 rvars, svars, evars, tvars, dvars, cvars, ovars, wvars, yvars>>

\* getModelCapabilities() resolves:
\* this._supportsToolCalling = capabilities.tools === true
ProbeAnswer ==
  /\ adapterPc = "probing"
  /\ \E cap \in Capabilities(provider) :
       /\ lastCapability' = cap
       /\ supportsToolCalling' = StrictTrue(cap)
  /\ path' = PathFor(supportsToolCalling')
  /\ adapterPc' = path'
  /\ UNCHANGED <<provider, envFlag, basePathSet, modelSet,
                 preloaded, op, functions, retryMessages,
                 nativeCalls, untooledCalls, upstreamRequests, metadataQueries,
                 lastRequest, lastResponse, driverResult, raised, outcome,
                 rvars, svars, evars, tvars, dvars, pvars, cvars, ovars, wvars, yvars>>

\* The native driver is invoked and sends its chat request upstream
NativeRequest ==
  /\ adapterPc = "native"
  /\ upstreamRequests < MaxRequests
  /\ nativeCalls' = nativeCalls + 1
  /\ upstreamRequests' = upstreamRequests + 1
  /\ lastRequest' = <<IF UsesTooledHelpers(provider)
                      THEN TooledRequest(functions)
                      ELSE OllamaRequest(functions)>>
  /\ adapterPc' = "awaitNative"
  /\ UNCHANGED <<provider, envFlag, basePathSet, modelSet, supportsToolCalling,
                 preloaded, lastCapability, op, functions, retryMessages, path,
                 untooledCalls, metadataQueries, lastResponse, driverResult,
                 raised, outcome, rvars, svars, evars, tvars, dvars, pvars, cvars, ovars, wvars, yvars>>

\* The request or the stream fails.  The helper-based adapters classify the
\* error; Ollama has no catch; Bedrock hands it to errorToHumanReadable,
\* which throws (the error or one of its own) or lets the call return
\* undefined.  Only the OpenAI client raises the API error classes.
NativeError ==
  /\ adapterPc = "awaitNative"
  /\ \E e \in Errors :
       /\ ~UsesTooledHelpers(provider) => e.kind = "Error"
       /\ raised' = <<e>>
       /\ IF UsesTooledHelpers(provider)
          THEN outcome' = <<Thrown(Classify(e))>>
          ELSE IF provider = "ollama"
          THEN outcome' = <<Thrown(e)>>
          ELSE outcome' \in {<<Thrown(e)>>,
                             <<Thrown([kind |-> "HumanReadable",
                                       message |-> e.message])>>,
                             <<ReturnedNothing>>}
  /\ adapterPc' = "done"
  /\ UNCHANGED <<provider, envFlag, basePathSet, modelSet, supportsToolCalling,
                 preloaded, lastCapability, op, functions, retryMessages, path,
                 nativeCalls, untooledCalls, upstreamRequests, metadataQueries,
                 lastRequest, lastResponse, driverResult, rvars, svars, evars, tvars, dvars, pvars, cvars, ovars, wvars, yvars>>

\* stream(): the native stream ends and its result is returned
NativeStreamDone ==
  /\ adapterPc = "awaitNative"
  /\ op = "stream"
  /\ \E r \in StreamResults : outcome' = <<ReturnedValue(r)>>
  /\ adapterPc' = "done"
  /\ UNCHANGED <<provider, envFlag, basePathSet, modelSet, supportsToolCalling,
                 preloaded, lastCapability, op, functions, retryMessages, path,
                 nativeCalls, untooledCalls, upstreamRequests, metadataQueries,
                 lastRequest, lastResponse, driverResult, raised, rvars, svars, evars, tvars, dvars, pvars, cvars, ovars, wvars, yvars>>

\* complete() of a helper-based adapter: tooledComplete returns; on
\* retryWithError the adapter calls complete() again with the message
\* appended, otherwise it returns the result
NativeCompleteResponse ==
  /\ adapterPc = "awaitNative"
  /\ op = "complete"
  /\ UsesTooledHelpers(provider)
  /\ \E r \in Responses :
       LET result == TooledComplete(r)
       IN /\ lastResponse' = <<r>>
          /\ driverResult' = <<result>>
          /\ IF result.retryWithError # <<>>
             THEN /\ retryMessages' =
                       Append(retryMessages, result.retryWithError[1])
                  /\ path' = "none"
                  /\ adapterPc' = "select"
                  /\ UNCHANGED outcome
             ELSE /\ outcome' = <<ReturnedValue(result)>>
                  /\ adapterPc' = "done"
                  /\ UNCHANGED <<retryMessages, path>>
  /\ UNCHANGED <<provider, envFlag, basePathSet, modelSet, supportsToolCalling,
                 preloaded, lastCapability, op, functions,
                 nativeCalls, untooledCalls, upstreamRequests, metadataQueries,
                 lastRequest, raised, rvars, svars, evars, tvars, dvars, pvars, cvars, ovars, wvars, yvars>>

\* complete() of Ollama and Bedrock: the first tool call or the text
OwnCompleteResponse ==
  /\ adapterPc = "awaitNative"
  /\ op = "complete"
  /\ ~UsesTooledHelpers(provider)
  /\ \E r \in Responses :
       /\ provider = "bedrock" =>
            \A i \in 1..Len(r.tool_calls) : r.tool_calls[i].arguments \in ValidJson
       /\ lastResponse' = <<r>>
       /\ driverResult' = <<OwnNativeComplete(provider, r)>>
       /\ outcome' = <<ReturnedValue(OwnNativeComplete(provider, r))>>
  /\ adapterPc' = "done"
  /\ UNCHANGED <<provider, envFlag, basePathSet, modelSet, supportsToolCalling,
                 preloaded, lastCapability, op, functions, retryMessages, path,
                 nativeCalls, untooledCalls, upstreamRequests, metadataQueries,
                 lastRequest, raised, rvars, svars, evars, tvars, dvars, pvars, cvars, ovars, wvars, yvars>>

\* What the provider can answer to the emulated chat request: text, a
\* response without text, or an error
ChatAnswers ==
  {[ok |-> TRUE, content |-> c, error |-> <<>>] : c \in {<<>>, <<"hello">>}} \cup
  {[ok |-> FALSE, content |-> <<>>, error |-> <<e>>] : e \in Errors}

\* #handleFunctionCallChat: the helper-based adapters and Bedrock catch every
\* error and yield null (undefined for Bedrock); Ollama has no catch
HandleFunctionCallChat(p, answer) ==
  IF answer.ok THEN ReturnedValue(answer.content)
  ELSE IF p = "ollama" THEN Thrown(answer.error[1])
  ELSE ReturnedNothing

\* The prompt-emulated driver handles the call; for complete() it sends the
\* chat request through #handleFunctionCallChat
UntooledRun ==
  /\ adapterPc = "untooled"
  /\ untooledCalls' = untooledCalls + 1
  /\ IF op = "stream"
     THEN /\ outcome' = <<ReturnedValue(TextResult(<<"emulated">>))>>
          /\ adapterPc' = "done"
     ELSE /\ adapterPc' = "awaitChat"
          /\ UNCHANGED outcome
  /\ UNCHANGED <<provider, envFlag, basePathSet, modelSet, supportsToolCalling,
                 preloaded, lastCapability, op, functions, retryMessages, path,
                 nativeCalls, upstreamRequests, metadataQueries,
                 lastRequest, lastResponse, driverResult, raised,
                 rvars, svars, evars, tvars, dvars, pvars, cvars, ovars, wvars, yvars>>

\* The provider answers the emulated chat request of complete(); an error
\* the callback lets through leaves complete() as it is
ChatAnswered ==
  /\ adapterPc = "awaitChat"
  /\ \E answer \in ChatAnswers :
       /\ ~UsesTooledHelpers(provider) /\ ~answer.ok => answer.error[1].kind = "Error"
       /\ callbackRaised' = answer.error
       /\ callbackResult' = <<HandleFunctionCallChat(provider, answer)>>
       /\ outcome' = IF callbackResult'[1].kind = "thrown"
                     THEN callbackResult'
                     ELSE <<ReturnedValue(TextResult(<<"emulated">>))>>
  /\ adapterPc' = "done"
  /\ UNCHANGED <<provider, envFlag, basePathSet, modelSet, supportsToolCalling,
                 preloaded, lastCapability, op, functions, retryMessages, path,
                 nativeCalls, untooledCalls, upstreamRequests, metadataQueries,
                 lastRequest, lastResponse, driverResult, raised,
                 rvars, svars, evars, tvars, dvars, pvars, ovars, wvars, yvars>>

\* The caller has the outcome; the instance is ready for its next call
CallSettled ==
  /\ adapterPc = "done"
  /\ adapterPc' = "idle"
  /\ UNCHANGED <<provider, envFlag, basePathSet, modelSet, supportsToolCalling,
                 preloaded, lastCapability, op, functions, retryMessages, path,
                 nativeCalls, untooledCalls, upstreamRequests, metadataQueries,
                 lastRequest, lastResponse, driverResult, raised, outcome,
                 rvars, svars, evars, tvars, dvars, pvars, cvars, ovars, wvars, yvars>>

NextAdapter ==
  \/ BeginCall
  \/ SelectNoProbe
  \/ SelectNoTools
  \/ SelectConst
  \/ SelectCached
  \/ SelectEnv
  \/ SelectMeta
  \/ SelectLemonade
  \/ ProbeAnswer
  \/ NativeRequest
  \/ NativeError
  \/ NativeStreamDone
  \/ NativeCompleteResponse
  \/ OwnCompleteResponse
  \/ UntooledRun
  \/ ChatAnswered
  \/ CallSettled

SpecAdapter == InitAdapter /\ [][NextAdapter]_vars


(***************************************************************************)
(* Properties of the adapters                                              *)
(***************************************************************************)
CallMade == op # "none"

HasProbe(p) == ProbeKind(p) # "none"

\* What supportsNativeToolCalling() resolved to for this instance
ProbeResolved ==
  IF ProbeKind(provider) = "const" THEN "true" ELSE supportsToolCalling

C2_NativeIffProbeTrue ==
  (CallMade /\ HasProbe(provider) /\ HasTools(functions)) =>
    /\ path = "native" => ProbeResolved = "true"
    /\ path = "untooled" => ProbeResolved \in {"false", "undefined"}
    /\ nativeCalls > 0 => ProbeResolved = "true"
    /\ untooledCalls > 0 => ProbeResolved \in {"false", "undefined"}
    /\ ProbeKind(provider) = "meta" =>
         (supportsToolCalling = "true" <=> lastCapability = "true")
    /\ (ProbeKind(provider) = "envmeta" /\ supportsToolCalling # "null") =>
         (supportsToolCalling = "true" <=>
            (envFlag = "named" \/ lastCapability = "true"))
    /\ (ProbeKind(provider) = "env" /\ supportsToolCalling # "null") =>
         (supportsToolCalling = "true" <=> envFlag = "named")

\* The metadata answered "unknown" and the emulated driver served the call
C2_Witness ==
  /\ HasTools(functions)
  /\ lastCapability = "unknown"
  /\ untooledCalls = 1
  /\ nativeCalls = 0
  /\ adapterPc = "done"

C8_AtMostOneRetry ==
  (op = "complete" /\ UsesTooledHelpers(provider)) =>
    /\ Len(retryMessages) <= 1
    /\ upstreamRequests <= 2

IsInfix(sub, s) ==
  \E i \in 0..(Len(s) - Len(sub)) : SubSeq(s, i + 1, i + Len(sub)) = sub

ResponseHandled ==
  /\ UsesTooledHelpers(provider)
  /\ lastResponse # <<>>
  /\ Len(lastResponse[1].tool_calls) > 0

IsRetrySignal(d, first) ==
  /\ d.functionCall = NoCall
  /\ Len(d.retryWithError) = 1
  /\ d.retryWithError[1].role = "function"
  /\ IsInfix(first.arguments, d.retryWithError[1].content)
  /\ d.retryWithError[1].originalFunctionCall =
       [id |-> first.id, name |-> first.name, arguments |-> first.arguments]

IsFirstCall(d, first) ==
  /\ d.textResponse = <<>>
  /\ d.retryWithError = <<>>
  /\ d.functionCall = <<[id |-> first.id, name |-> first.name,
                         arguments |-> JsonValue(first.arguments)]>>

\* C9 (as stated): for a response with tool calls, tooledComplete returns the
\* first call with parsed arguments and a null textResponse when the first
\* call's arguments parse as JSON, and otherwise a retry signal without a
\* functionCall: a function message quoting the raw arguments, whose
\* originalFunctionCall carries the call's id, name and raw arguments.
C9_FirstCallOrRetry ==
  ResponseHandled =>
    LET first == lastResponse[1].tool_calls[1]
        d == driverResult[1]
    IN IF first.arguments \in ValidJson
       THEN IsFirstCall(d, first)
       ELSE IsRetrySignal(d, first)

\* C9 (amended): the first call is returned when its arguments parse as JSON
\* to a value other than null; arguments that do not parse, or that are the
\* JSON literal null, produce the retry signal.
C9_FirstCallUnlessNull ==
  ResponseHandled =>
    LET first == lastResponse[1].tool_calls[1]
        d == driverResult[1]
    IN IF first.arguments \in ValidJson /\ JsonValue(first.arguments) # "null"
       THEN IsFirstCall(d, first)
       ELSE IsRetrySignal(d, first)

\* Two calls in the response, the first malformed and the second well-formed:
\* the retry signal for the first is returned
C9_Witness ==
  /\ ResponseHandled
  /\ Len(lastResponse[1].tool_calls) = 2
  /\ lastResponse[1].tool_calls[1].arguments \notin ValidJson
  /\ lastResponse[1].tool_calls[2].arguments = <<"{q:", "cats}">>
  /\ driverResult[1].retryWithError # <<>>

\* C10: an error raised on the native path of an adapter built on the OpenAI
\* client leaves stream()/complete() as follows: an authentication error
\* unchanged, a rate-limit, internal-server or generic API error as a
\* RetryError with the same message, any other error unchanged; Ollama, which
\* has no catch, throws the error unchanged.  The same holds when the error is
\* raised after complete() re-invoked itself.
C10_ErrorClassification ==
  (raised # <<>> /\ provider # "bedrock") =>
    /\ outcome # <<>>
    /\ outcome[1].kind = "thrown"
    /\ LET e == raised[1]
           t == outcome[1].error[1]
       IN /\ e.kind = "AuthenticationError" => t = e
          /\ e.kind \in {"RateLimitError", "InternalServerError", "APIError"} =>
               t = [kind |-> "RetryError", message |-> e.message]
          /\ e.kind = "Error" => t = e

\* An authentication error raised inside the recursive retry of complete()
C10_Witness ==
  /\ op = "complete"
  /\ Len(retryMessages) >= 1
  /\ raised # <<>>
  /\ raised[1].kind = "AuthenticationError"
  /\ outcome # <<>>
  /\ outcome[1].kind = "thrown"

\* C11 (as stated): on the emulated non-streaming path an authentication or
\* transport failure of the chat request leaves the adapter's request
\* callback as an error, never as a null or empty text result, and the turn
\* is aborted.
C11_FailureAbortsTurn ==
  callbackRaised # <<>> =>
    /\ callbackResult[1].kind = "thrown"
    /\ outcome[1].kind = "thrown"

\* Once the probe has resolved, the cached answer stays and neither the
\* environment flag nor the model's metadata is consulted again
ProbeStaysResolved ==
  supportsToolCalling # "null" =>
    /\ supportsToolCalling' = supportsToolCalling
    /\ envReads' = envReads
    /\ metadataQueries' <= metadataQueries
    /\ adapterPc' # "probing"

\* C12: the probe is resolved at most once per adapter instance: after it
\* has answered, every later call gets the same answer from the cache,
\* without another read of the environment flag and without a metadata
\* query, also when the first answer was false or undefined.
C12_ProbeResolvedOnce == [][ProbeStaysResolved]_vars

\* A later call answered from the cache after the first resolution gave
\* undefined
C12_Witness ==
  /\ probeSource = "cache"
  /\ supportsToolCalling = "undefined"
  /\ envReads = 1
  /\ path = "untooled"

\* C13 (as stated): the Lemonade probe never throws, whatever the
\* configuration and whatever the metadata query does, so stream() and
\* complete() only fail with an error raised by a chat request.
C13_ProbeNeverThrows ==
  (provider = "lemonade" /\ outcome # <<>> /\ outcome[1].kind = "thrown") =>
    (raised # <<>> \/ callbackRaised # <<>>)

(***************************************************************************)
(* Ollama: the prompt-emulated stream()                                    *)
(***************************************************************************)
\* A tool call as the model writes it in its text: {name, arguments}
EmuCall(name, arguments) == [name |-> name, arguments |-> arguments]

\* Texts that parse as JSON, with the value they parse to.  "none" stands
\* for an arguments object without the required field.
CallTexts ==
  {<<"{search:", "cats}">>, <<"{search:", "dogs}">>, <<"{bogus:", "cats}">>,
   <<"{search:", "}">>}

CallOfText(text) ==
  CASE text = <<"{search:", "cats}">> -> EmuCall("search", "cats")
    [] text = <<"{search:", "dogs}">> -> EmuCall("search", "dogs")
    [] text = <<"{bogus:", "cats}">> -> EmuCall("bogus", "cats")
    [] text = <<"{search:", "}">> -> EmuCall("search", "none")

\* safeJsonParse(textResponse, null): <<>> stands for null
SafeJsonParseCall(text) ==
  IF text \in CallTexts THEN <<CallOfText(text)>> ELSE <<>>

\* The declared tool: search, with one required argument
DeclaredNames == {"search"}

\* validFuncCall(call, functions): the name is declared and the required
\* argument is present
ValidFuncCall(call) ==
  /\ call.name \in DeclaredNames
  /\ call.arguments # "none"

\* deduplicator.isDuplicate(name, arguments)
IsDuplicate(recorded, call) == call \in recorded

\* deduplicator.trackRun(name, arguments)
TrackRun(recorded, call) == recorded \cup {call}

\* The recorded runs survive the end of a text turn
KeepRuns(recorded) == recorded

\* deduplicator.reset("runs")
ResetRuns(recorded) == {}

\* What the model streams when asked for a tool call, and when asked for text
FirstPlans ==
  CallTexts \cup {<<>>, <<"hi">>, <<"hi", "yo">>}
SecondPlans == {<<>>, <<"hi">>, <<"hi", "yo">>}

\* A chunk: content, a reasoning token, a message with empty content, or a
\* chunk without a message
ContentChunk(c) == [kind |-> "content", text |-> c]
NoiseChunks ==
  {[kind |-> "thinking", text |-> "hm"], [kind |-> "empty", text |-> ""],
   [kind |-> "nomessage", text |-> ""]}

Event(type, uuid, content) == [type |-> type, uuid |-> uuid, content |-> content]

\* eventHandler?.("reportStreamEvent", event)
Emit(handler, events, event) == IF handler THEN Append(events, event) ELSE events

EmitAll(handler, events, more) == IF handler THEN events \o more ELSE events

\* textResponse grows by the token instead of the content
AccumulateToken(text, content, token) == text \o token

\* textResponse += content
AccumulateContent(text, content, token) == Append(text, content)

\* The loop body of streamingFunctionCall for one chunk:
\* the new textResponse, token and reasoningText state
FirstLoopStep(text, token, reasoning, chunk) ==
  CASE chunk.kind = "thinking" ->
         [text |-> text,
          token |-> IF reasoning THEN <<chunk.text>>
                    ELSE <<"Thinking:", chunk.text>>,
          reasoning |-> TRUE]
    [] chunk.kind = "content" ->
         LET tok == IF reasoning THEN <<"Done thinking.", chunk.text>>
                    ELSE <<chunk.text>>
         IN [text |-> AccumulateContent(text, chunk.text, tok),
             token |-> tok,
             reasoning |-> FALSE]
    [] OTHER -> [text |-> text, token |-> token, reasoning |-> reasoning]

\* The loop body of the plain-text stream for one chunk with a message:
\* completion.content += token runs for every such chunk
SecondLoopStep(content, token, reasoning, chunk) ==
  LET tok == CASE chunk.kind = "thinking" ->
                    IF reasoning THEN <<chunk.text>>
                    ELSE <<"<think>", chunk.text>>
               [] chunk.kind = "content" ->
                    IF reasoning THEN <<"</think>", chunk.text>>
                    ELSE <<chunk.text>>
               [] OTHER -> token
  IN [content |-> content \o tok,
      token |-> tok,
      reasoning |-> CASE chunk.kind = "thinking" -> TRUE
                      [] chunk.kind = "content" -> FALSE
                      [] OTHER -> reasoning]

\* An invalid or duplicate call handed back with the model's text
FunctionCallOutcomeKeepText(text, recorded) ==
  LET call == SafeJsonParseCall(text)
  IN IF call = <<>>
     THEN [toolCall |-> <<>>, text |-> <<text>>, event |-> <<>>]
     ELSE IF ~ValidFuncCall(call[1])
     THEN [toolCall |-> <<>>, text |-> <<text>>,
           event |-> <<Event("removeStatusResponse", "msg", <<"invalid">>)>>]
     ELSE IF IsDuplicate(recorded, call[1])
     THEN [toolCall |-> <<>>, text |-> <<text>>,
           event |-> <<Event("removeStatusResponse", "msg", <<"duplicate">>)>>]
     ELSE [toolCall |-> call, text |-> <<>>,
           event |-> <<Event("toolCallInvocation", "msg:tool_call_invocation",
                             <<call[1].name, call[1].arguments>>)>>]

\* streamingFunctionCall after the stream has ended: {toolCall, text} and the
\* event it emits.  text is <<>> for null and <<t>> for the string t.
FunctionCallOutcome(text, recorded) ==
  LET call == SafeJsonParseCall(text)
  IN IF call = <<>>
     THEN [toolCall |-> <<>>, text |-> <<text>>, event |-> <<>>]
     ELSE IF ~ValidFuncCall(call[1])
     THEN [toolCall |-> <<>>, text |-> <<>>,
           event |-> <<Event("removeStatusResponse", "msg", <<"invalid">>)>>]
     ELSE IF IsDuplicate(recorded, call[1])
     THEN [toolCall |-> <<>>, text |-> <<>>,
           event |-> <<Event("removeStatusResponse", "msg", <<"duplicate">>)>>]
     ELSE [toolCall |-> call, text |-> <<>>,
           event |-> <<Event("toolCallInvocation", "msg:tool_call_invocation",
                             <<call[1].name, call[1].arguments>>)>>]

\* if (text): a non-empty string
Truthy(text) == text # <<>> /\ text[1] # <<>>

EmuThrown(e) ==
  [kind |-> "thrown", error |-> <<e>>, functionCall |-> <<>>, textResponse |-> <<>>]
EmuFunctionCall(call) ==
  [kind |-> "functionCall", error |-> <<>>, functionCall |-> <<call>>,
   textResponse |-> <<>>]
EmuTextResult(text) ==
  [kind |-> "text", error |-> <<>>, functionCall |-> <<>>, textResponse |-> text]

TypeError == [kind |-> "TypeError", message |-> "m1"]

Histories == {"empty", "lastUser", "lastAssistant"}

InitEmulated ==
  /\ ReconcileIdle
  /\ StreamIdle
  /\ AdapterIdle
  /\ EmulatedIdle
  /\ TooledIdle
  /\ DownloadIdle
  /\ OllamaStreamIdle
  /\ OverlapIdle
  /\ RelayIdle

\* stream(messages, functions, eventHandler) is called and takes the
\* emulated branch
EmuBegin ==
  /\ emuPc = "idle"
  /\ emuHistory' \in Histories
  /\ emuHasTools' \in BOOLEAN
  /\ emuHandler' \in BOOLEAN
  /\ emuPc' = "entry"
  /\ emuPlan' = <<>>
  /\ emuPlainPlan' = <<>>
  /\ emuSent' = 0
  /\ emuNoise' = 0
  /\ emuText' = <<>>
  /\ emuToken' = <<>>
  /\ emuReasoning' = FALSE
  /\ emuContent' = <<>>
  /\ emuEvents' = <<>>
  /\ emuRequests' = 0
  /\ runsAtStart' = runs
  /\ emuRaised' = <<>>
  /\ emuResult' = <<>>
  /\ UNCHANGED <<runs, emuLog, rvars, svars, avars, tvars, dvars, ovars, wvars, yvars>>

\* streamingFunctionCall: history[history.length - 1].role fails on an empty
\* history; on a last message that is not the user's it returns null, which
\* stream() cannot destructure
EmuHistoryRejected ==
  /\ emuPc = "entry"
  /\ emuHasTools
  /\ emuHistory # "lastUser"
  /\ emuResult' = <<EmuThrown(TypeError)>>
  /\ emuPc' = "done"
  /\ UNCHANGED <<emuHistory, emuHasTools, emuHandler, emuPlan, emuPlainPlan, emuSent, emuNoise,
                 emuText, emuToken, emuReasoning, emuContent, emuEvents,
                 emuRequests, runs, runsAtStart, emuRaised, emuLog,
                 rvars, svars, avars, tvars, dvars, ovars, wvars, yvars>>

\* streamingFunctionCall sends the tool prompt and announces it
EmuFirstRequest ==
  /\ emuPc = "entry"
  /\ emuHasTools
  /\ emuHistory = "lastUser"
  /\ emuRequests' = emuRequests + 1
  /\ emuPlan' \in FirstPlans
  /\ emuEvents' = Emit(emuHandler, emuEvents,
                       Event("statusResponse", "v4", <<"Agent is thinking...">>))
  /\ emuPc' = "first"
  /\ UNCHANGED <<emuHistory, emuHasTools, emuHandler, emuPlainPlan, emuSent, emuNoise,
                 emuText, emuToken, emuReasoning, emuContent,
                 runs, runsAtStart, emuRaised, emuResult, emuLog,
                 rvars, svars, avars, tvars, dvars, ovars, wvars, yvars>>

\* The chunks the stream can deliver next
NextChunks(planned) ==
  (IF emuSent < Len(planned) THEN {ContentChunk(planned[emuSent + 1])} ELSE {})
  \cup (IF emuNoise < MaxNoise THEN NoiseChunks ELSE {})

\* One chunk of the tool-prompt stream
EmuFirstChunk ==
  /\ emuPc = "first"
  /\ \E chunk \in NextChunks(emuPlan) :
       LET step == FirstLoopStep(emuText, emuToken, emuReasoning, chunk)
       IN /\ emuText' = step.text
          /\ emuToken' = step.token
          /\ emuReasoning' = step.reasoning
          /\ emuSent' = IF chunk.kind = "content" THEN emuSent + 1 ELSE emuSent
          /\ emuNoise' = IF chunk.kind = "content" THEN emuNoise ELSE emuNoise + 1
          /\ emuEvents' = IF chunk.kind = "nomessage" THEN emuEvents
                          ELSE Emit(emuHandler, emuEvents,
                                    Event("statusResponse", "msg", step.token))
  /\ UNCHANGED <<emuPc, emuHistory, emuHasTools, emuHandler, emuPlan, emuPlainPlan, emuContent,
                 emuRequests, runs, runsAtStart, emuRaised, emuResult, emuLog,
                 rvars, svars, avars, tvars, dvars, ovars, wvars, yvars>>

\* A chat request or its stream fails: catch (error) { throw error; }
EmuRequestFails ==
  /\ emuPc \in {"first", "second"}
  /\ \E m \in ErrorMessages :
       /\ emuRaised' = <<[kind |-> "Error", message |-> m]>>
       /\ emuResult' = <<EmuThrown([kind |-> "Error", message |-> m])>>
  /\ emuPc' = "done"
  /\ UNCHANGED <<emuHistory, emuHasTools, emuHandler, emuPlan, emuPlainPlan, emuSent, emuNoise,
                 emuText, emuToken, emuReasoning, emuContent, emuEvents,
                 emuRequests, runs, runsAtStart, emuLog, rvars, svars, avars, tvars, dvars, ovars, wvars, yvars>>

\* The plain-text request: "Done thinking." and a new stream
StartPlain(events) ==
  /\ emuEvents' = Emit(emuHandler, events,
                       Event("statusResponse", "v4", <<"Done thinking.">>))
  /\ emuRequests' = emuRequests + 1
  /\ emuPlainPlan' \in SecondPlans
  /\ emuSent' = 0
  /\ emuNoise' = 0
  /\ emuContent' = <<>>
  /\ emuToken' = <<>>
  /\ emuReasoning' = FALSE
  /\ emuPc' = "second"

\* The tool-prompt stream has ended: streamingFunctionCall returns and
\* stream() acts on {toolCall, text}
EmuFirstEnd ==
  /\ emuPc = "first"
  /\ emuSent = Len(emuPlan)
  /\ LET sfc == FunctionCallOutcome(emuText, runs)
         after == EmitAll(emuHandler, emuEvents, sfc.event)
     IN IF sfc.toolCall # <<>>
        THEN /\ runs' = TrackRun(runs, sfc.toolCall[1])
             /\ emuResult' = <<EmuFunctionCall(sfc.toolCall[1])>>
             /\ emuEvents' = after
             /\ emuPc' = "done"
             /\ UNCHANGED <<emuPlainPlan, emuSent, emuNoise, emuContent, emuToken,
                            emuReasoning, emuRequests>>
        ELSE IF Truthy(sfc.text)
        THEN /\ emuContent' = sfc.text[1]
             /\ emuEvents' =
                  EmitAll(emuHandler, after,
                    <<Event("removeStatusResponse", "msg",
                            <<"No tool call found in the response">>),
                      Event("statusResponse", "v4", <<"Done thinking.">>),
                      Event("fullTextResponse", "v4", sfc.text[1])>>)
             /\ runs' = ResetRuns(runs)
             /\ emuResult' = <<EmuTextResult(sfc.text[1])>>
             /\ emuPc' = "done"
             /\ UNCHANGED <<emuPlainPlan, emuSent, emuNoise, emuToken, emuReasoning,
                            emuRequests>>
        ELSE /\ StartPlain(after)
             /\ UNCHANGED <<runs, emuResult>>
  /\ UNCHANGED <<emuHistory, emuHasTools, emuHandler, emuPlan, emuText, runsAtStart,
                 emuRaised, emuLog, rvars, svars, avars, tvars, dvars, ovars, wvars, yvars>>

\* No tools: stream() goes straight to the plain-text request
EmuPlainRequest ==
  /\ emuPc = "entry"
  /\ ~emuHasTools
  /\ StartPlain(emuEvents)
  /\ UNCHANGED <<emuHistory, emuHasTools, emuHandler, emuPlan, emuText,
                 runs, runsAtStart, emuRaised, emuResult, emuLog,
                 rvars, svars, avars, tvars, dvars, ovars, wvars, yvars>>

\* One chunk of the plain-text stream
EmuSecondChunk ==
  /\ emuPc = "second"
  /\ \E chunk \in NextChunks(emuPlainPlan) :
       /\ emuSent' = IF chunk.kind = "content" THEN emuSent + 1 ELSE emuSent
       /\ emuNoise' = IF chunk.kind = "content" THEN emuNoise ELSE emuNoise + 1
       /\ IF chunk.kind = "nomessage"
          THEN UNCHANGED <<emuContent, emuToken, emuReasoning, emuEvents>>
          ELSE LET step == SecondLoopStep(emuContent, emuToken, emuReasoning, chunk)
               IN /\ emuContent' = step.content
                  /\ emuToken' = step.token
                  /\ emuReasoning' = step.reasoning
                  /\ emuEvents' = Emit(emuHandler, emuEvents,
                                       Event("textResponseChunk", "msg2", step.token))
  /\ UNCHANGED <<emuPc, emuHistory, emuHasTools, emuHandler, emuPlan, emuPlainPlan, emuText,
                 emuRequests, runs, runsAtStart, emuRaised, emuResult, emuLog,
                 rvars, svars, avars, tvars, dvars, ovars, wvars, yvars>>

\* The plain-text stream has ended: the runs are reset and the text returned
EmuSecondEnd ==
  /\ emuPc = "second"
  /\ emuSent = Len(emuPlainPlan)
  /\ runs' = ResetRuns(runs)
  /\ emuResult' = <<EmuTextResult(emuContent)>>
  /\ emuPc' = "done"
  /\ UNCHANGED <<emuHistory, emuHasTools, emuHandler, emuPlan, emuPlainPlan, emuSent, emuNoise,
                 emuText, emuToken, emuReasoning, emuContent, emuEvents,
                 emuRequests, runsAtStart, emuRaised, emuLog, rvars, svars, avars, tvars, dvars, ovars, wvars, yvars>>

\* The caller has the result; the call's locals are gone and the adapter is
\* ready for the next turn
EmuSettled ==
  /\ emuPc = "done"
  /\ emuPc' = "idle"
  /\ emuLog' = <<[kind |-> emuResult[1].kind,
                  functionCall |-> emuResult[1].functionCall,
                  asked |-> SafeJsonParseCall(emuText)]>>
  /\ emuHistory' = "lastUser"
  /\ emuHasTools' = FALSE
  /\ emuHandler' = FALSE
  /\ emuPlan' = <<>>
  /\ emuPlainPlan' = <<>>
  /\ emuSent' = 0
  /\ emuNoise' = 0
  /\ emuText' = <<>>
  /\ emuToken' = <<>>
  /\ emuReasoning' = FALSE
  /\ emuContent' = <<>>
  /\ emuEvents' = <<>>
  /\ emuRequests' = 0
  /\ runsAtStart' = runs
  /\ emuRaised' = <<>>
  /\ emuResult' = <<>>
  /\ UNCHANGED <<runs, rvars, svars, avars, tvars, dvars, ovars, wvars, yvars>>

NextEmulated ==
  \/ EmuBegin
  \/ EmuHistoryRejected
  \/ EmuFirstRequest
  \/ EmuFirstChunk
  \/ EmuRequestFails
  \/ EmuFirstEnd
  \/ EmuPlainRequest
  \/ EmuSecondChunk
  \/ EmuSecondEnd
  \/ EmuSettled

SpecEmulated == InitEmulated /\ [][NextEmulated]_vars


(***************************************************************************)
(* Properties of the emulated stream()                                     *)
(***************************************************************************)
\* The tool prompt was answered in full and no request failed
ToolTurnDone ==
  /\ emuPc = "done"
  /\ emuHasTools
  /\ emuHistory = "lastUser"
  /\ emuRaised = <<>>

AskedCall == SafeJsonParseCall(emuText)

EventsOfType(type) == {i \in DOMAIN emuEvents : emuEvents[i].type = type}

C15_InvalidCallDropped ==
  (ToolTurnDone /\ AskedCall # <<>>
     /\ (~ValidFuncCall(AskedCall[1]) \/ AskedCall[1] \in runsAtStart)) =>
    /\ emuResult[1].kind = "text"
    /\ emuResult[1].functionCall = <<>>
    /\ AskedCall[1] \notin runs
    /\ emuHandler => Cardinality(EventsOfType("removeStatusResponse")) = 1

\* An undeclared tool was asked for and the turn ended with text
C15_Witness ==
  /\ ToolTurnDone
  /\ emuHandler
  /\ AskedCall # <<>>
  /\ AskedCall[1].name = "bogus"
  /\ emuResult[1].kind = "text"
  /\ emuResult[1].textResponse # <<>>
  /\ emuRequests = 2

\* C16: with tools, a non-empty streamed text that does not parse as JSON is
\* returned as textResponse exactly as streamed, without functionCall, after
\* a single chat request, and a fullTextResponse event carries that text.
C16_PlainTextAnswer ==
  (ToolTurnDone /\ emuPlan # <<>> /\ emuPlan \notin CallTexts) =>
    /\ emuResult[1] = EmuTextResult(emuPlan)
    /\ emuRequests = 1
    /\ emuHandler =>
         \E i \in EventsOfType("fullTextResponse") :
            emuEvents[i].content = emuPlan

\* Text streamed in two chunks after a reasoning chunk
C16_Witness ==
  /\ ToolTurnDone
  /\ emuHandler
  /\ emuPlan = <<"hi", "yo">>
  /\ emuNoise = 1
  /\ \E i \in EventsOfType("statusResponse") :
        emuEvents[i].content = <<"Done thinking.", "hi">>
  /\ emuResult[1].textResponse = <<"hi", "yo">>

\* stream() has returned the text of its plain-text request
PlainStreamDone ==
  /\ emuPc = "done"
  /\ emuRaised = <<>>
  /\ emuResult[1].kind = "text"
  /\ emuRequests = (IF emuHasTools THEN 2 ELSE 1)

Occurrences(tok, text) == Cardinality({k \in 1..Len(text) : text[k] = tok})

\* C25 (as claimed): the text returned by the plain-text stream holds one token
\* per content-bearing or reasoning-bearing chunk, each chunk counted once, so
\* every content the model streamed occurs in it exactly as often as it was
\* streamed; a chunk with a message but empty content adds nothing and causes
\* no further textResponseChunk event for a token already reported.
C25_EachChunkOnce ==
  PlainStreamDone =>
    \A tok \in {"hi", "yo"} :
      /\ Occurrences(tok, emuResult[1].textResponse) = Occurrences(tok, emuPlainPlan)
      /\ emuHandler =>
           Cardinality({i \in EventsOfType("textResponseChunk") :
                          Occurrences(tok, emuEvents[i].content) > 0})
             = Occurrences(tok, emuPlainPlan)

\* C30 (as claimed): the emulated stream() with a non-empty tool list returns a
\* text or tool-call result for every history, also when the history has no
\* user or assistant message or ends with an assistant message; it fails only
\* with the error of a chat request, never with one raised by its own code.
C30_ResultForEveryHistory ==
  (emuPc = "done" /\ emuHasTools /\ emuRaised = <<>>) =>
    emuResult[1].kind \in {"text", "functionCall"}

(***************************************************************************)
(* The request of tooledStream / tooledComplete                            *)
(***************************************************************************)
\* Function definitions with independent name, description and parameters
FunctionDefs ==
  {[name |-> n, description |-> d, parameters |-> q] :
     n \in 1..2, d \in 1..2, q \in 1..2}

\* What a caller can pass as `functions`: an array (undefined becomes the
\* default []), or something that is not an array (null, an object)
FunctionArgs ==
  {[isArray |-> TRUE, items |-> l] : l \in SeqsUpTo(FunctionDefs, MaxFunctions)}
    \cup {[isArray |-> FALSE, items |-> <<>>]}

\* if (!Array.isArray(functions) || functions.length === 0) return [];
ToolsOf(arg) ==
  IF ~arg.isArray \/ Len(arg.items) = 0 THEN <<>>
  ELSE FormatFunctionsToTools(arg.items)

\* create({model, stream, messages, ...(tools.length > 0 ? { tools } : {})})
CreateBody(arg, streaming) ==
  LET tools == ToolsOf(arg)
  IN [stream |-> streaming, hasTools |-> Len(tools) > 0, tools |-> tools]

InitTooled ==
  /\ ReconcileIdle
  /\ StreamIdle
  /\ AdapterIdle
  /\ EmulatedIdle
  /\ DownloadIdle
  /\ OllamaStreamIdle
  /\ OverlapIdle
  /\ RelayIdle
  /\ tooledFunctions \in FunctionArgs
  /\ tooledOp = "none"
  /\ tooledRequest = <<>>

TooledStreamRequest ==
  /\ tooledOp = "none"
  /\ tooledOp' = "stream"
  /\ tooledRequest' = <<CreateBody(tooledFunctions, TRUE)>>
  /\ UNCHANGED <<tooledFunctions, rvars, svars, avars, evars, dvars, ovars, wvars, yvars>>

TooledCompleteRequest ==
  /\ tooledOp = "none"
  /\ tooledOp' = "complete"
  /\ tooledRequest' = <<CreateBody(tooledFunctions, FALSE)>>
  /\ UNCHANGED <<tooledFunctions, rvars, svars, avars, evars, dvars, ovars, wvars, yvars>>

NextTooled == TooledStreamRequest \/ TooledCompleteRequest

SpecTooled == InitTooled /\ [][NextTooled]_vars

\* C19: the request of tooledStream / tooledComplete has no tools field when
\* the function list is empty or not an array; otherwise it has one tool entry
\* per function, in the same order, each with the function's name, description
\* and parameters.
C19_ToolsField ==
  tooledOp # "none" =>
    LET req == tooledRequest[1]
        fns == tooledFunctions.items
    IN  IF ~tooledFunctions.isArray \/ Len(fns) = 0
        THEN ~req.hasTools
        ELSE /\ req.hasTools
             /\ Len(req.tools) = Len(fns)
             /\ \A i \in 1..Len(fns) :
                  /\ req.tools[i].type = "function"
                  /\ req.tools[i].function.name = fns[i].name
                  /\ req.tools[i].function.description = fns[i].description
                  /\ req.tools[i].function.parameters = fns[i].parameters

\* C19 witness: a streamed request for two different functions
C19_Witness ==
  /\ tooledOp = "stream"
  /\ tooledFunctions.isArray
  /\ Len(tooledFunctions.items) = 2
  /\ tooledFunctions.items[1] # tooledFunctions.items[2]
  /\ tooledRequest[1].hasTools
  /\ Len(tooledRequest[1].tools) = 2

(***************************************************************************)
(* The browser's model download (LemonadeUtils.downloadModel)              *)
(***************************************************************************)
Percentages == {50, 100}

\* A line of the response body: a data line carrying a progress, success or
\* error event, or anything else (a blank line, a line that is not JSON)
ProgressLine(pct) == [type |-> "progress", percentage |-> pct]
SuccessLine == [type |-> "success", percentage |-> 100]
ErrorLine == [type |-> "error", percentage |-> 0]
OtherLine == [type |-> "other", percentage |-> 0]
Lines == {ProgressLine(q) : q \in Percentages} \cup {SuccessLine, ErrorLine, OtherLine}

\* chunk.split("\n"): at least one line
ChunksOfLines == SeqsUpTo(Lines, MaxLines) \ {<<>>}

Resolved(ok, msg) == [success |-> ok, error |-> msg]

\* resolve(value): only the first call settles the promise
Resolve(resolved, value) == IF resolved = <<>> THEN <<value>> ELSE resolved

\* The body of `for (const line of lines)` on the loop's state
\* st = [done, resolved, progress]
LineStep(st, line) ==
  CASE line.type = "success" ->
         [st EXCEPT !.done = TRUE,
                    !.resolved = Resolve(st.resolved, Resolved(TRUE, "none"))]
    [] line.type = "error" ->
         [st EXCEPT !.done = TRUE,
                    !.resolved = Resolve(st.resolved, Resolved(FALSE, "event"))]
    [] line.type = "progress" ->
         [st EXCEPT !.progress = Append(st.progress, line.percentage)]
    [] OTHER -> st

RECURSIVE ChunkLoop(_, _, _)
ChunkLoop(st, lines, i) ==
  IF i > Len(lines) THEN st
  ELSE ChunkLoop(LineStep(st, lines[i]), lines, i + 1)

InitDownload ==
  /\ ReconcileIdle
  /\ StreamIdle
  /\ AdapterIdle
  /\ EmulatedIdle
  /\ TooledIdle
  /\ DownloadIdle
  /\ OllamaStreamIdle
  /\ OverlapIdle
  /\ RelayIdle

\* downloadModel(modelId, basePath, progressCallback) posts the request
DownloadBegin ==
  /\ dlPc = "idle"
  /\ dlPc' = "fetching"
  /\ UNCHANGED <<dlChunks, dlReceived, dlDone, dlResolved, dlProgress,
                 rvars, svars, avars, evars, tvars, ovars, wvars, yvars>>

\* fetch resolves with response.ok: the body reader is taken
DownloadResponseOk ==
  /\ dlPc = "fetching"
  /\ dlPc' = "reading"
  /\ UNCHANGED <<dlChunks, dlReceived, dlDone, dlResolved, dlProgress,
                 rvars, svars, avars, evars, tvars, ovars, wvars, yvars>>

\* fetch rejects, or resolves with !response.ok: the catch resolves a failure
DownloadRequestFails ==
  /\ dlPc = "fetching"
  /\ \E msg \in {"network", "statusText"} :
       dlResolved' = Resolve(dlResolved, Resolved(FALSE, msg))
  /\ dlPc' = "settled"
  /\ UNCHANGED <<dlChunks, dlReceived, dlDone, dlProgress,
                 rvars, svars, avars, evars, tvars, ovars, wvars, yvars>>

\* reader.read() yields a chunk; all of its lines are handled
DownloadReadChunk ==
  /\ dlPc = "reading"
  /\ ~dlDone
  /\ dlChunks < MaxChunks
  /\ \E chunk \in ChunksOfLines :
       LET st == ChunkLoop([done |-> dlDone, resolved |-> dlResolved,
                            progress |-> dlProgress], chunk, 1)
       IN  /\ dlReceived' = dlReceived \o chunk
           /\ dlDone' = st.done
           /\ dlResolved' = st.resolved
           /\ dlProgress' = st.progress
  /\ dlChunks' = dlChunks + 1
  /\ UNCHANGED <<dlPc, rvars, svars, avars, evars, tvars, ovars, wvars, yvars>>

\* reader.read() reports the end of the body
DownloadReadEnd ==
  /\ dlPc = "reading"
  /\ ~dlDone
  /\ dlDone' = TRUE
  /\ dlResolved' = Resolve(dlResolved, Resolved(TRUE, "none"))
  /\ UNCHANGED <<dlPc, dlChunks, dlReceived, dlProgress,
                 rvars, svars, avars, evars, tvars, ovars, wvars, yvars>>

\* reader.read() rejects: the catch resolves a failure
DownloadReadFails ==
  /\ dlPc = "reading"
  /\ ~dlDone
  /\ dlResolved' = Resolve(dlResolved, Resolved(FALSE, "read"))
  /\ dlPc' = "settled"
  /\ UNCHANGED <<dlChunks, dlReceived, dlDone, dlProgress,
                 rvars, svars, avars, evars, tvars, ovars, wvars, yvars>>

\* while (!done) ends
DownloadLoopExit ==
  /\ dlPc = "reading"
  /\ dlDone
  /\ dlPc' = "settled"
  /\ UNCHANGED <<dlChunks, dlReceived, dlDone, dlResolved, dlProgress,
                 rvars, svars, avars, evars, tvars, ovars, wvars, yvars>>

NextDownload ==
  \/ DownloadBegin
  \/ DownloadResponseOk
  \/ DownloadRequestFails
  \/ DownloadReadChunk
  \/ DownloadReadEnd
  \/ DownloadReadFails
  \/ DownloadLoopExit

SpecDownload == InitDownload /\ [][NextDownload]_vars

\* The first event of the body is a success event: the model was already
\* downloaded, no progress event came before it
AlreadyDownloaded ==
  \E k \in 1..Len(dlReceived) :
    /\ dlReceived[k].type = "success"
    /\ \A j \in 1..(k - 1) : dlReceived[j].type = "other"

\* C20 (as claimed): when the model is already downloaded, so that the body
\* holds a success event and no progress event before it, and downloadModel
\* has resolved with success, progressCallback has been called exactly once,
\* with 100.
C20_CalledOnceWith100 ==
  (/\ dlPc = "settled"
   /\ AlreadyDownloaded
   /\ \A k \in 1..Len(dlReceived) : dlReceived[k].type # "progress"
   /\ dlResolved # <<>> /\ dlResolved[1].success)
    => dlProgress = <<100>>

\* The terminal events among the lines read, by position
TerminalLines ==
  {k \in 1..Len(dlReceived) : dlReceived[k].type \in {"success", "error"}}

\* C29 (as claimed): downloadModel resolves with success: true only if a
\* success event was received; when the stream ends without one it resolves
\* with success: false; and when terminal events were read, the value is that
\* of the first of them.
C29_SuccessNeedsEvent ==
  dlResolved # <<>> =>
    /\ dlResolved[1].success =>
         \E k \in 1..Len(dlReceived) : dlReceived[k].type = "success"
    /\ TerminalLines # {} =>
         (dlResolved[1].success
            <=> dlReceived[MinOf(TerminalLines)].type = "success")

(***************************************************************************)
(* OllamaProvider.stream with native tool calling                          *)
(***************************************************************************)
\* The calls a chunk's message.tool_calls can hold
OllamaCalls == {[name |-> n] : n \in {"search", "fetch"}}

\* A chunk of the stream: without message, or with content and tool_calls
OllamaChunks ==
  {[message |-> FALSE, content |-> <<>>, tool_calls |-> <<>>]} \cup
  {[message |-> TRUE, content |-> c, tool_calls |-> tc] :
     c \in {<<>>, <<"t">>}, tc \in SeqsUpTo(OllamaCalls, 2)}

\* if (chunk.message.tool_calls?.length > 0) toolCalls = chunk.message.tool_calls
AssignToolCalls(toolCalls, chunk) ==
  IF Len(chunk.tool_calls) > 0 THEN chunk.tool_calls ELSE toolCalls

OllamaChunkEvents(handler, chunk) ==
  IF ~handler THEN <<>>
  ELSE (IF chunk.content # <<>>
        THEN <<[type |-> "textResponseChunk", uuid |-> MsgUUID,
                content |-> chunk.content]>>
        ELSE <<>>)
       \o (IF Len(chunk.tool_calls) > 0
           THEN <<[type |-> "toolCallInvocation", uuid |-> ToolCallUUID,
                   content |-> <<chunk.tool_calls[1].name>>]>>
           ELSE <<>>)

\* The value stream() returns after the loop
OllamaStreamResult(text, toolCalls) ==
  [textResponse |-> text,
   functionCall |-> IF Len(toolCalls) > 0 THEN <<toolCalls[1]>> ELSE <<>>]

InitOllamaStream ==
  /\ ReconcileIdle
  /\ StreamIdle
  /\ AdapterIdle
  /\ EmulatedIdle
  /\ TooledIdle
  /\ DownloadIdle
  /\ OverlapIdle
  /\ RelayIdle
  /\ olPc = "streaming"
  /\ olHandler \in BOOLEAN
  /\ olChunks = <<>>
  /\ olText = <<>>
  /\ olToolCalls = <<>>
  /\ olEvents = <<>>
  /\ olResult = <<>>

\* One iteration of `for await (const chunk of stream)`
OllamaStreamChunk ==
  /\ olPc = "streaming"
  /\ Len(olChunks) < MaxOllamaChunks
  /\ \E chunk \in OllamaChunks :
       /\ olChunks' = Append(olChunks, chunk)
       /\ IF ~chunk.message
          THEN UNCHANGED <<olText, olToolCalls, olEvents>>
          ELSE /\ olText' = olText \o chunk.content
               /\ olToolCalls' = AssignToolCalls(olToolCalls, chunk)
               /\ olEvents' = olEvents \o OllamaChunkEvents(olHandler, chunk)
  /\ UNCHANGED <<olPc, olHandler, olResult, rvars, svars, avars, evars, tvars, dvars, wvars, yvars>>

\* The stream ends and stream() returns
OllamaStreamEnd ==
  /\ olPc = "streaming"
  /\ olPc' = "done"
  /\ olResult' = <<OllamaStreamResult(olText, olToolCalls)>>
  /\ UNCHANGED <<olHandler, olChunks, olText, olToolCalls, olEvents,
                 rvars, svars, avars, evars, tvars, dvars, wvars, yvars>>

NextOllamaStream == OllamaStreamChunk \/ OllamaStreamEnd

SpecOllamaStream == InitOllamaStream /\ [][NextOllamaStream]_vars

\* The chunks that carried tool calls, by position
ToolCallChunks ==
  {k \in 1..Len(olChunks) :
     olChunks[k].message /\ Len(olChunks[k].tool_calls) > 0}

\* C23 (as claimed): the native Ollama stream() returns at most one tool call,
\* and when chunks carried tool calls the returned call is the first entry of
\* the first chunk that carried tool calls.
C23_FirstCallWins ==
  olPc = "done" =>
    /\ Len(olResult[1].functionCall) <= 1
    /\ ToolCallChunks # {} =>
         /\ Len(olResult[1].functionCall) = 1
         /\ olResult[1].functionCall[1].name =
              olChunks[MinOf(ToolCallChunks)].tool_calls[1].name

(***************************************************************************)
(* Overlapping calls on one adapter instance                               *)
(***************************************************************************)
OvCalls == 1..MaxOverlap

InFlight(c) == ovPc[c] \notin {"idle", "done"}

InitOverlap ==
  /\ ReconcileIdle
  /\ StreamIdle
  /\ AdapterIdle
  /\ EmulatedIdle
  /\ TooledIdle
  /\ DownloadIdle
  /\ OllamaStreamIdle
  /\ RelayIdle
  /\ ovProvider \in {"lemonade", "dmr"}
  /\ ovEnvFlag \in EnvFlags
  /\ ovCache = "null"
  /\ ovPc = [c \in OvCalls |-> "idle"]
  /\ ovAnswer = [c \in OvCalls |-> "none"]
  /\ ovQueries = 0
  /\ ovOverlap = FALSE

\* supportsNativeToolCalling() up to its first await, run by call c: the cache
\* test, for Lemonade the environment flag, then the metadata query
OvProbe(c) ==
  IF IsResolved(ovCache)
  THEN /\ ovAnswer' = [ovAnswer EXCEPT ![c] = ovCache]
       /\ ovPc' = [ovPc EXCEPT ![c] = "done"]
       /\ UNCHANGED <<ovCache, ovQueries>>
  ELSE IF ovProvider = "lemonade" /\ EnvIncludes(ovEnvFlag) = "true"
  THEN /\ ovCache' = "true"
       /\ ovAnswer' = [ovAnswer EXCEPT ![c] = "true"]
       /\ ovPc' = [ovPc EXCEPT ![c] = "done"]
       /\ UNCHANGED ovQueries
  ELSE /\ ovQueries' = ovQueries + 1
       /\ ovPc' = [ovPc EXCEPT ![c] = "awaitMeta"]
       /\ UNCHANGED <<ovCache, ovAnswer>>

\* stream() / complete() is called with tools.  Docker Model Runner reaches the
\* probe at once; Lemonade first awaits preloadModel().
OvBegin(c) ==
  /\ ovPc[c] = "idle"
  /\ ovOverlap' = (ovOverlap \/ (ovCache = "null" /\ \E d \in OvCalls : InFlight(d)))
  /\ IF ovProvider = "lemonade"
     THEN /\ ovPc' = [ovPc EXCEPT ![c] = "preload"]
          /\ UNCHANGED <<ovCache, ovAnswer, ovQueries>>
     ELSE OvProbe(c)
  /\ UNCHANGED <<ovProvider, ovEnvFlag, rvars, svars, avars, evars, tvars, dvars, ovars, yvars>>

\* Lemonade: preloadModel() has resolved and the probe is reached
OvPreloaded(c) ==
  /\ ovPc[c] = "preload"
  /\ OvProbe(c)
  /\ UNCHANGED <<ovProvider, ovEnvFlag, ovOverlap,
                 rvars, svars, avars, evars, tvars, dvars, ovars, yvars>>

\* getModelCapabilities() resolves for call c:
\* this._supportsToolCalling = capabilities.tools === true; return it
OvMetaAnswer(c) ==
  /\ ovPc[c] = "awaitMeta"
  /\ \E cap \in Capabilities(ovProvider) :
       /\ ovCache' = StrictTrue(cap)
       /\ ovAnswer' = [ovAnswer EXCEPT ![c] = StrictTrue(cap)]
  /\ ovPc' = [ovPc EXCEPT ![c] = "done"]
  /\ UNCHANGED <<ovProvider, ovEnvFlag, ovQueries, ovOverlap,
                 rvars, svars, avars, evars, tvars, dvars, ovars, yvars>>

NextOverlap ==
  \E c \in OvCalls : OvBegin(c) \/ OvPreloaded(c) \/ OvMetaAnswer(c)

SpecOverlap == InitOverlap /\ [][NextOverlap]_vars

\* C26 (as claimed): when calls overlapped on an instance whose probe cache was
\* unresolved, at most one metadata query is issued for the instance and the
\* calls select their path from the same probe answer.
C26_OneQuerySameAnswer ==
  ovOverlap =>
    /\ ovQueries <= 1
    /\ \A c, d \in OvCalls :
         (ovPc[c] = "done" /\ ovPc[d] = "done") => ovAnswer[c] = ovAnswer[d]

(***************************************************************************)
(* The download-model relay endpoints                                      *)
(***************************************************************************)
\* The record that reports a finished download: a JSON line of type "success"
\* (Docker Model Runner), an event named "complete" (Lemonade)
FinishedType(kind) == IF kind = "lemonade" THEN "complete" ELSE "success"

RecordTypes(kind) == {"progress", "error", FinishedType(kind)}

\* What a read holds of a record.  whole: all of it.  head / tail: its JSON
\* line cut in two by the read boundary.  first / rest (Lemonade): its event
\* line and its data line in different reads.
Item(part, type) == [part |-> part, type |-> type]

Parts(kind) ==
  IF kind = "lemonade" THEN {"whole", "head", "tail", "first", "rest"}
  ELSE {"whole", "head", "tail"}

Items(kind) == {Item(q, t) : q \in Parts(kind), t \in RecordTypes(kind)}

\* What has to follow an item in the next read
PendingAfter(item) ==
  CASE item.part = "head" -> <<Item("tail", item.type)>>
    [] item.part = "first" -> <<Item("rest", item.type)>>
    [] OTHER -> <<>>

\* The reads the upstream can deliver next: a pending continuation first,
\* then records from their beginning, only the last of which may be cut
Reads(kind, pending) ==
  {r \in SeqsUpTo(Items(kind), MaxItems) :
     /\ Len(r) > 0
     /\ pending # <<>> => r[1] = pending[1]
     /\ \A k \in 1..Len(r) :
          /\ (k > 1 \/ pending = <<>>) => r[k].part \in {"whole", "head", "first"}
          /\ k < Len(r) => PendingAfter(r[k]) = <<>>}

\* The records that begin in a read
RECURSIVE RecordsBegun(_)
RecordsBegun(r) ==
  IF r = <<>> THEN <<>>
  ELSE (IF Head(r).part \in {"whole", "head", "first"}
        THEN <<Head(r).type>> ELSE <<>>) \o RecordsBegun(Tail(r))

\* chunk.split("\n"): the lines an item contributes to the read
RelayLine(line, type) == [line |-> line, type |-> type]

LinesOf(kind, item) ==
  IF kind = "lemonade"
  THEN CASE item.part = "whole" ->
              <<RelayLine("event", item.type), RelayLine("data", item.type)>>
         [] item.part = "first" -> <<RelayLine("event", item.type)>>
         [] item.part = "rest" -> <<RelayLine("data", item.type)>>
         [] item.part = "head" ->
              <<RelayLine("event", item.type), RelayLine("cutdata", item.type)>>
         [] OTHER -> <<RelayLine("cut", item.type)>>
  ELSE IF item.part = "whole" THEN <<RelayLine("json", item.type)>>
       ELSE <<RelayLine("cut", item.type)>>

RECURSIVE LinesOfRead(_, _)
LinesOfRead(kind, r) ==
  IF r = <<>> THEN <<>> ELSE LinesOf(kind, Head(r)) \o LinesOfRead(kind, Tail(r))

\* What the relay does for a parsed record of the given type
\* st = [done, cur, written, thrown]
ActOn(st, type) ==
  CASE type = "error" -> [st EXCEPT !.thrown = TRUE]
    [] type \in {"success", "complete"} ->
         [st EXCEPT !.written = Append(@, "success"), !.done = TRUE]
    [] type = "progress" -> [st EXCEPT !.written = Append(@, "progress")]
    [] OTHER -> st

\* The body of `for (const line of lines)`; a throw leaves the loop
RelayLineStep(st, kind, line) ==
  IF st.thrown THEN st
  ELSE CASE line.line = "json" -> ActOn(st, line.type)
         [] line.line = "event" -> [st EXCEPT !.cur = line.type]
         [] line.line = "data" -> [ActOn(st, st.cur) EXCEPT !.cur = "null"]
         [] OTHER -> st

RECURSIVE RelayLoop(_, _, _)
RelayLoop(st, kind, lines) ==
  IF lines = <<>> THEN st
  ELSE RelayLoop(RelayLineStep(st, kind, Head(lines)), kind, Tail(lines))

InitRelay ==
  /\ ReconcileIdle
  /\ StreamIdle
  /\ AdapterIdle
  /\ EmulatedIdle
  /\ TooledIdle
  /\ DownloadIdle
  /\ OllamaStreamIdle
  /\ OverlapIdle
  /\ rlKind \in {"dmr", "lemonade"}
  /\ rlPc = "idle"
  /\ rlReads = 0
  /\ rlRecords = <<>>
  /\ rlPending = <<>>
  /\ rlSplit = FALSE
  /\ rlDone = FALSE
  /\ rlCurrent = "null"
  /\ rlWritten = <<>>
  /\ rlEnded = 0

\* The request arrives: headers are written and the upstream is asked
RelayBegin ==
  /\ rlPc = "idle"
  /\ rlPc' = "fetching"
  /\ UNCHANGED <<rlKind, rlReads, rlRecords, rlPending, rlSplit, rlDone, rlCurrent,
                 rlWritten, rlEnded, rvars, svars, avars, evars, tvars, dvars,
                 ovars, wvars>>

\* The upstream answers with an OK status
RelayFetchOk ==
  /\ rlPc = "fetching"
  /\ rlPc' = "reading"
  /\ UNCHANGED <<rlKind, rlReads, rlRecords, rlPending, rlSplit, rlDone, rlCurrent,
                 rlWritten, rlEnded, rvars, svars, avars, evars, tvars, dvars,
                 ovars, wvars>>

\* The request setup or fetch throws, or the status is not OK: catch writes an
\* error event, finally ends the response
RelayFetchFails ==
  /\ rlPc = "fetching"
  /\ rlWritten' = Append(rlWritten, "error")
  /\ rlEnded' = rlEnded + 1
  /\ rlPc' = "ended"
  /\ UNCHANGED <<rlKind, rlReads, rlRecords, rlPending, rlSplit, rlDone, rlCurrent,
                 rvars, svars, avars, evars, tvars, dvars, ovars, wvars>>

\* reader.read() yields bytes: every line of the read is handled; a throw is
\* caught and written as an error event; when the loop is left the response
\* is ended
RelayRead ==
  /\ rlPc = "reading"
  /\ ~rlDone
  /\ rlReads < MaxReads
  /\ \E r \in Reads(rlKind, rlPending) :
       LET st == RelayLoop([done |-> rlDone, cur |-> rlCurrent,
                            written |-> rlWritten, thrown |-> FALSE],
                           rlKind, LinesOfRead(rlKind, r))
       IN  /\ rlRecords' = rlRecords \o RecordsBegun(r)
           /\ rlPending' = PendingAfter(r[Len(r)])
           /\ rlSplit' = (rlSplit \/ r[Len(r)].part = "head")
           /\ rlDone' = st.done
           /\ rlCurrent' = st.cur
           /\ rlWritten' = IF st.thrown THEN Append(st.written, "error")
                           ELSE st.written
           /\ rlEnded' = IF st.thrown \/ st.done THEN rlEnded + 1 ELSE rlEnded
           /\ rlPc' = IF st.thrown \/ st.done THEN "ended" ELSE "reading"
  /\ rlReads' = rlReads + 1
  /\ UNCHANGED <<rlKind, rvars, svars, avars, evars, tvars, dvars, ovars, wvars>>

\* reader.read() reports the end of the upstream body
RelayUpstreamEnd ==
  /\ rlPc = "reading"
  /\ ~rlDone
  /\ rlPending = <<>>
  /\ rlDone' = TRUE
  /\ rlEnded' = rlEnded + 1
  /\ rlPc' = "ended"
  /\ UNCHANGED <<rlKind, rlReads, rlRecords, rlPending, rlSplit, rlCurrent,
                 rlWritten, rvars, svars, avars, evars, tvars, dvars, ovars, wvars>>

\* reader.read() rejects
RelayReadFails ==
  /\ rlPc = "reading"
  /\ ~rlDone
  /\ rlWritten' = Append(rlWritten, "error")
  /\ rlEnded' = rlEnded + 1
  /\ rlPc' = "ended"
  /\ UNCHANGED <<rlKind, rlReads, rlRecords, rlPending, rlSplit, rlDone, rlCurrent,
                 rvars, svars, avars, evars, tvars, dvars, ovars, wvars>>

NextRelay ==
  \/ RelayBegin
  \/ RelayFetchOk
  \/ RelayFetchFails
  \/ RelayRead
  \/ RelayUpstreamEnd
  \/ RelayReadFails

SpecRelay == InitRelay /\ [][NextRelay]_vars

TerminalEvents == {k \in 1..Len(rlWritten) : rlWritten[k] \in {"success", "error"}}

\* C27 (as claimed): the relay ends the HTTP response exactly once on every
\* path, writes at most one terminal event (success or error) per request, and
\* writes no event of any type after a success event.
C27_OneTerminalEvent ==
  /\ rlEnded <= 1
  /\ rlPc = "ended" <=> rlEnded = 1
  /\ Cardinality(TerminalEvents) <= 1
  /\ \A k \in 1..Len(rlWritten) : rlWritten[k] = "success" => k = Len(rlWritten)

IsTerminal(type) == type \in {"error", "success", "complete"}

\* The event the relay owes for a terminal record
EventFor(type) == IF type = "error" THEN "error" ELSE "success"

\* C28 (as claimed): however the upstream bytes are split into reads, once
\* every record begun has arrived completely, each progress record sent before
\* a terminal record has been relayed as exactly one progress event, and the
\* first error or success record has been acted on.
C28_SplitIndependent ==
  (rlPc \in {"reading", "ended"} /\ rlPending = <<>>) =>
    LET terminals == {k \in 1..Len(rlRecords) : IsTerminal(rlRecords[k])}
    IN  IF terminals = {}
        THEN Occurrences("progress", rlWritten) = Len(rlRecords)
        ELSE LET first == MinOf(terminals)
             IN  /\ Occurrences("progress", rlWritten) >= first - 1
                 /\ \E k \in 1..Len(rlWritten) :
                      /\ rlWritten[k] = EventFor(rlRecords[first])
                      /\ Occurrences("progress", SubSeq(rlWritten, 1, k - 1))
                           = first - 1

====
